---------------------------- MODULE Spec2Model ----------------------------
(***************************************************************************)
(* A model of qba-db: a single-table store kept in a paged B+tree file.    *)
(*                                                                         *)
(* The engine modelled is the one made of src/src/db.rs (statements and    *)
(* close), src/src/cursor.rs, src/src/pager.rs, src/src/leaf_node.rs and   *)
(* src/src/internal_node.rs.  db.rs still imports LeafNode from the older  *)
(* tree.rs; every other module, and the Pager that owns the pages, uses    *)
(* leaf_node.rs, so LeafNode is read as leaf_node::LeafNode throughout.    *)
(*                                                                         *)
(* Byte buffers are sequences of bytes (0..255); byte offset o of the      *)
(* source is index o + 1 here.  u32 fields are stored in native byte       *)
(* order, taken to be little-endian.  Option<T> is <<>> (None) or <<v>>    *)
(* (Some(v)).  A panic (unwrap on Err, panic!, index out of range) ends    *)
(* the process: the operators return panic |-> TRUE and the action moves   *)
(* phase to "crashed".                                                     *)
(***************************************************************************)
EXTENDS Integers, Sequences, FiniteSets, TLC

VARIABLES
    table,      \* db.rs Table: [root_page_num, pager: [file_length, num_pages, pages]]
    file,       \* the bytes of the database file on disk
    phase,      \* "open": a Db instance is live; "crashed": the process panicked
    out,        \* the rows emitted by the last statement (select's log lines)
    last,       \* the last statement run and how it ended
    stmts,      \* the rows of the insert statements run on this Db instance
    fresh,      \* this Db instance was opened on a new or empty file
    closed,     \* <<[rows, stmts, fresh]>> of the last close_db that returned Ok
    reopened,   \* this Db instance was opened right after a close_db that returned Ok
    unit        \* inputs and results of the functions checked on their own

vars == <<table, file, phase, out, last, stmts, fresh, closed, reopened, unit>>

(***************************************************************************)
(* Bounds of the model.                                                    *)
(***************************************************************************)
\* keys of the insert statements are 1..MaxKey
MaxKey == 2
\* short strings have 0..MaxShort bytes
MaxShort == 1

(***************************************************************************)
(* Layout constants.                                                       *)
(***************************************************************************)
\* a page twice as large: a leaf then holds two cells
PAGE_SIZE_two_cells == 2 * 150

PAGE_SIZE == 150
TABLE_MAX_PAGES == 100

MAX_STRING_SIZE == 64
ID_SIZE == 4
USERNAME_SIZE == 1 * MAX_STRING_SIZE
EMAIL_SIZE == 1 * MAX_STRING_SIZE
ID_OFFSET == 0
USERNAME_OFFSET == ID_OFFSET + ID_SIZE
EMAIL_OFFSET == USERNAME_OFFSET + USERNAME_SIZE
ROW_SIZE == ID_SIZE + USERNAME_SIZE + EMAIL_SIZE

NODE_TYPE_SIZE == 1
NODE_TYPE_OFFSET == 0
IS_ROOT_SIZE == 1
IS_ROOT_OFFSET == NODE_TYPE_SIZE
PARENT_POINTER_SIZE == 4
PARENT_POINTER_OFFSET == IS_ROOT_OFFSET + IS_ROOT_SIZE
COMMON_NODE_HEADER_SIZE == NODE_TYPE_SIZE + IS_ROOT_SIZE + PARENT_POINTER_SIZE

LEAF_NODE_NUM_CELLS_SIZE == 4
LEAF_NODE_NUM_CELLS_OFFSET == COMMON_NODE_HEADER_SIZE
LEAF_NODE_NEXT_LEAF_SIZE == 4
LEAF_NODE_NEXT_LEAF_OFFSET == LEAF_NODE_NUM_CELLS_OFFSET + LEAF_NODE_NUM_CELLS_SIZE
LEAF_NODE_HEADER_SIZE ==
    COMMON_NODE_HEADER_SIZE + LEAF_NODE_NUM_CELLS_SIZE + LEAF_NODE_NEXT_LEAF_SIZE

LEAF_NODE_KEY_SIZE == 4
LEAF_NODE_KEY_OFFSET == 0
LEAF_NODE_VALUE_SIZE == ROW_SIZE
LEAF_NODE_VALUE_OFFSET == LEAF_NODE_KEY_OFFSET + LEAF_NODE_KEY_SIZE
LEAF_NODE_CELL_SIZE == LEAF_NODE_KEY_SIZE + LEAF_NODE_VALUE_SIZE
LEAF_NODE_SPACE_FOR_CELLS == PAGE_SIZE - LEAF_NODE_HEADER_SIZE
LEAF_NODE_MAX_CELLS == LEAF_NODE_SPACE_FOR_CELLS \div LEAF_NODE_CELL_SIZE

LEAF_NODE_RIGHT_SPLIT_COUNT == (LEAF_NODE_MAX_CELLS + 1) \div 2
LEAF_NODE_LEFT_SPLIT_COUNT == (LEAF_NODE_MAX_CELLS + 1) - LEAF_NODE_RIGHT_SPLIT_COUNT

INTERNAL_NODE_NUM_KEYS_SIZE == 4
INTERNAL_NODE_NUM_KEYS_OFFSET == COMMON_NODE_HEADER_SIZE
INTERNAL_NODE_RIGHT_CHILD_SIZE == 4
INTERNAL_NODE_RIGHT_CHILD_OFFSET ==
    INTERNAL_NODE_NUM_KEYS_OFFSET + INTERNAL_NODE_NUM_KEYS_SIZE
INTERNAL_NODE_HEADER_SIZE ==
    COMMON_NODE_HEADER_SIZE + INTERNAL_NODE_NUM_KEYS_SIZE + INTERNAL_NODE_RIGHT_CHILD_SIZE
INTERNAL_NODE_KEY_SIZE == 4
INTERNAL_NODE_CHILD_SIZE == 4
INTERNAL_NODE_CELL_SIZE == INTERNAL_NODE_KEY_SIZE + INTERNAL_NODE_CHILD_SIZE
INTERNAL_NODE_SPACE_FOR_CELLS == PAGE_SIZE - INTERNAL_NODE_HEADER_SIZE
INTERNAL_NODE_MAX_CELLS == INTERNAL_NODE_SPACE_FOR_CELLS \div INTERNAL_NODE_CELL_SIZE

(***************************************************************************)
(* Bytes.                                                                  *)
(***************************************************************************)
\* u32::to_ne_bytes, little-endian
U32Bytes(n) ==
    << n % 256, (n \div 256) % 256, (n \div 65536) % 256, (n \div 16777216) % 256 >>

\* u32::from_ne_bytes
BytesU32(b) == b[1] + 256 * b[2] + 65536 * b[3] + 16777216 * b[4]

\* std::slice::from_raw_parts(buf + off, len)
Slice(buf, off, len) == [i \in 1..len |-> buf[off + i]]

\* ptr::copy_nonoverlapping(bytes, buf + off, Len(bytes))
CopyTo(buf, off, bytes) ==
    [i \in 1..Len(buf) |->
        IF i > off /\ i <= off + Len(bytes) THEN bytes[i - off] ELSE buf[i]]

\* ptr::write_bytes(buf + off, v, len)
WriteBytes(buf, off, v, len) ==
    [i \in 1..Len(buf) |-> IF i > off /\ i <= off + len THEN v ELSE buf[i]]

\* [v; n]
Filled(n, v) == [i \in 1..n |-> v]

\* std::str::from_utf8(..).is_ok(), for the byte values the model uses
Utf8Ok(bytes) == \A i \in 1..Len(bytes) : bytes[i] < 128

(***************************************************************************)
(* Row codec (db.rs).  A Row is [id, username, email], the strings being   *)
(* sequences of bytes.                                                     *)
(***************************************************************************)
\* Writes the row at buf + off.  The id is copied before the first length
\* check, and the username before the second.
unsafe_serialize_row(source, buf, off) ==
    LET b1 == CopyTo(buf, off + ID_OFFSET, U32Bytes(source.id))
        b2 == CopyTo(WriteBytes(b1, off + USERNAME_OFFSET, 0, USERNAME_SIZE),
                     off + USERNAME_OFFSET, source.username)
        b3 == CopyTo(WriteBytes(b2, off + EMAIL_OFFSET, 0, EMAIL_SIZE),
                     off + EMAIL_OFFSET, source.email)
    IN  IF Len(source.username) > MAX_STRING_SIZE
        THEN [ok |-> FALSE, err |-> "Username is too long!", buf |-> b1]
        ELSE IF Len(source.email) > MAX_STRING_SIZE
        THEN [ok |-> FALSE, err |-> "Email is too long!", buf |-> b2]
        ELSE [ok |-> TRUE, err |-> "", buf |-> b3]

serialize_row(source, buf, off) == unsafe_serialize_row(source, buf, off)

\* Reads the row at buf + off: each string is the whole 64-byte slot.
\* from_utf8(..).unwrap() panics on bytes that are not UTF-8.
unsafe_deserialize_row(buf, off) ==
    LET username_slice == Slice(buf, off + USERNAME_OFFSET, USERNAME_SIZE)
        email_slice == Slice(buf, off + EMAIL_OFFSET, EMAIL_SIZE)
    IN  IF ~Utf8Ok(username_slice) \/ ~Utf8Ok(email_slice)
        THEN [panic |-> TRUE, row |-> [id |-> 0, username |-> <<>>, email |-> <<>>]]
        ELSE [panic |-> FALSE,
              row |-> [id |-> BytesU32(Slice(buf, off + ID_OFFSET, ID_SIZE)),
                       username |-> username_slice,
                       email |-> email_slice]]

deserialize_row(buf, off) == unsafe_deserialize_row(buf, off)

(***************************************************************************)
(* Nodes.  A LeafNode is [is_root, parent_ptr, num_cells, next_leaf,       *)
(* cells], cells being the LEAF_NODE_SPACE_FOR_CELLS bytes of the source;  *)
(* an InternalNode is [is_root, parent_ptr, num_keys, right_child, cells], *)
(* cells being INTERNAL_NODE_MAX_CELLS pairs <<key, page_num>>.            *)
(***************************************************************************)
LeafNode_new ==
    [is_root |-> FALSE, parent_ptr |-> 0, num_cells |-> 0, next_leaf |-> 0,
     cells |-> Filled(LEAF_NODE_SPACE_FOR_CELLS, 0)]

InternalNode_new ==
    [is_root |-> FALSE, parent_ptr |-> 0, num_keys |-> 0, right_child |-> 0,
     cells |-> [i \in 1..INTERNAL_NODE_MAX_CELLS |-> <<0, 0>>]]

\* the byte offset of a cell in LeafNode.cells
get_cell(cell_num) == cell_num * LEAF_NODE_CELL_SIZE

get_cell_key(node, cell_num) ==
    BytesU32(Slice(node.cells, get_cell(cell_num) + LEAF_NODE_KEY_OFFSET,
                   LEAF_NODE_NUM_CELLS_SIZE))

\* the byte offset of a cell's row in LeafNode.cells
get_cell_value(cell_num) == get_cell(cell_num) + LEAF_NODE_VALUE_OFFSET

get_max_key(node) == get_cell_key(node, node.num_cells - 1)

BoolByte(b) == IF b THEN 1 ELSE 0

\* LeafNode::deserialize_node with the node type byte of an internal node
LeafNode_deserialize_node_internal_type(node, destination) ==
    LET d1 == WriteBytes(destination, NODE_TYPE_OFFSET, 0, NODE_TYPE_SIZE)
        d2 == CopyTo(d1, IS_ROOT_OFFSET, <<BoolByte(node.is_root)>>)
        d3 == CopyTo(d2, PARENT_POINTER_OFFSET, U32Bytes(node.parent_ptr))
        d4 == CopyTo(d3, LEAF_NODE_NUM_CELLS_OFFSET, U32Bytes(node.num_cells))
        d5 == CopyTo(d4, LEAF_NODE_NEXT_LEAF_OFFSET, U32Bytes(node.next_leaf))
    IN  CopyTo(d5, LEAF_NODE_HEADER_SIZE, node.cells)

\* LeafNode::deserialize_node writes the node into a page buffer (the source
\* names the two directions the other way round).
LeafNode_deserialize_node(node, destination) ==
    LET d1 == WriteBytes(destination, NODE_TYPE_OFFSET, 1, NODE_TYPE_SIZE)
        d2 == CopyTo(d1, IS_ROOT_OFFSET, <<BoolByte(node.is_root)>>)
        d3 == CopyTo(d2, PARENT_POINTER_OFFSET, U32Bytes(node.parent_ptr))
        d4 == CopyTo(d3, LEAF_NODE_NUM_CELLS_OFFSET, U32Bytes(node.num_cells))
        d5 == CopyTo(d4, LEAF_NODE_NEXT_LEAF_OFFSET, U32Bytes(node.next_leaf))
    IN  CopyTo(d5, LEAF_NODE_HEADER_SIZE, node.cells)

\* The bytes of InternalNode.cells, an array of (u32, u32): each cell is its
\* key followed by its child page number.
InternalCellBytes(cells) ==
    [i \in 1..(Len(cells) * INTERNAL_NODE_CELL_SIZE) |->
        LET cell == cells[((i - 1) \div INTERNAL_NODE_CELL_SIZE) + 1]
            o == (i - 1) % INTERNAL_NODE_CELL_SIZE
        IN  IF o < INTERNAL_NODE_KEY_SIZE
            THEN U32Bytes(cell[1])[o + 1]
            ELSE U32Bytes(cell[2])[o - INTERNAL_NODE_KEY_SIZE + 1]]

\* InternalNode::deserialize_node writes the node into a page buffer.
InternalNode_deserialize_node(node, destination) ==
    LET d1 == WriteBytes(destination, NODE_TYPE_OFFSET, 0, NODE_TYPE_SIZE)
        d2 == CopyTo(d1, IS_ROOT_OFFSET, <<BoolByte(node.is_root)>>)
        d3 == CopyTo(d2, PARENT_POINTER_OFFSET, U32Bytes(node.parent_ptr))
        d4 == CopyTo(d3, INTERNAL_NODE_NUM_KEYS_OFFSET, U32Bytes(node.num_keys))
        d5 == CopyTo(d4, INTERNAL_NODE_RIGHT_CHILD_OFFSET, U32Bytes(node.right_child))
    IN  CopyTo(d5, INTERNAL_NODE_HEADER_SIZE,
               SubSeq(InternalCellBytes(node.cells), 1, INTERNAL_NODE_SPACE_FOR_CELLS))

\* LeafNode::serialize_node reads a node from a page buffer; it panics on a
\* node_type byte other than 1 and on an is_root byte other than 0 or 1.
LeafNode_serialize_node(source) ==
    IF source[NODE_TYPE_OFFSET + 1] # 1 \/ source[IS_ROOT_OFFSET + 1] \notin {0, 1}
    THEN [panic |-> TRUE, node |-> LeafNode_new]
    ELSE [panic |-> FALSE,
          node |-> [is_root |-> source[IS_ROOT_OFFSET + 1] = 1,
                    parent_ptr |->
                        BytesU32(Slice(source, PARENT_POINTER_OFFSET, PARENT_POINTER_SIZE)),
                    num_cells |->
                        BytesU32(Slice(source, LEAF_NODE_NUM_CELLS_OFFSET,
                                       LEAF_NODE_NUM_CELLS_SIZE)),
                    next_leaf |->
                        BytesU32(Slice(source, LEAF_NODE_NEXT_LEAF_OFFSET,
                                       LEAF_NODE_NEXT_LEAF_SIZE)),
                    cells |-> Slice(source, LEAF_NODE_HEADER_SIZE,
                                    LEAF_NODE_SPACE_FOR_CELLS)]]

\* The (u32, u32) cells read back from the bytes InternalCellBytes lays out.
InternalCellsOf(bytes) ==
    [i \in 1..INTERNAL_NODE_MAX_CELLS |->
        <<BytesU32(Slice(bytes, (i - 1) * INTERNAL_NODE_CELL_SIZE,
                         INTERNAL_NODE_KEY_SIZE)),
          BytesU32(Slice(bytes, (i - 1) * INTERNAL_NODE_CELL_SIZE + INTERNAL_NODE_KEY_SIZE,
                         INTERNAL_NODE_CHILD_SIZE))>>]

\* InternalNode::serialize_node reads a node from a page buffer into dest.  It
\* panics on a node_type byte other than 0 and on an is_root byte other than
\* 0 or 1.  right_child is read at offset INTERNAL_NODE_NUM_KEYS_SIZE.  The
\* cells are taken as a slice of INTERNAL_NODE_SPACE_FOR_CELLS elements and
\* converted to an array of INTERNAL_NODE_MAX_CELLS elements with
\* try_into().unwrap(), which panics unless the two lengths are equal; dest is
\* assigned after that conversion only.
InternalNode_serialize_node(source, dest) ==
    IF source[NODE_TYPE_OFFSET + 1] # 0 \/ source[IS_ROOT_OFFSET + 1] \notin {0, 1}
    THEN [panic |-> TRUE, node |-> dest]
    ELSE IF INTERNAL_NODE_SPACE_FOR_CELLS # INTERNAL_NODE_MAX_CELLS
    THEN [panic |-> TRUE, node |-> dest]
    ELSE [panic |-> FALSE,
          node |-> [is_root |-> source[IS_ROOT_OFFSET + 1] = 1,
                    parent_ptr |->
                        BytesU32(Slice(source, PARENT_POINTER_OFFSET, PARENT_POINTER_SIZE)),
                    num_keys |->
                        BytesU32(Slice(source, INTERNAL_NODE_NUM_KEYS_OFFSET,
                                       INTERNAL_NODE_NUM_KEYS_SIZE)),
                    right_child |->
                        BytesU32(Slice(source, INTERNAL_NODE_NUM_KEYS_SIZE,
                                       INTERNAL_NODE_RIGHT_CHILD_SIZE)),
                    cells |-> InternalCellsOf(Slice(source, INTERNAL_NODE_HEADER_SIZE,
                                                    INTERNAL_NODE_SPACE_FOR_CELLS))]]

(***************************************************************************)
(* Pager (pager.rs).  A pager is [file_length, num_pages, pages]; pages     *)
(* maps 0..TABLE_MAX_PAGES-1 to the pair <<Option<InternalNode>,            *)
(* Option<LeafNode>>>.  The file handle is the variable file.  A result is  *)
(* res |-> "ok", "err" (an Err(..) returned) or "panic".                    *)
(***************************************************************************)
NoPages == [p \in 0..(TABLE_MAX_PAGES - 1) |-> << <<>>, <<>> >>]

\* a fresh leaf whose is_root is left as LeafNode::new sets it
RootLeaf_not_root == LeafNode_new

RootLeaf == [LeafNode_new EXCEPT !.is_root = TRUE]

\* Pager::open_file without the check of the file's length.
open_file_no_length_check(exists, f) ==
    LET file_length == IF exists THEN Len(f) ELSE 0
        rooted == [NoPages EXCEPT ![0] = << <<>>, <<RootLeaf>> >>]
    IN  IF file_length = 0
        THEN [res |-> "ok",
              pager |-> [file_length |-> file_length, num_pages |-> 1, pages |-> rooted]]
        ELSE [res |-> "ok",
              pager |-> [file_length |-> file_length,
                         num_pages |-> file_length \div PAGE_SIZE,
                         pages |-> NoPages]]

\* Pager::open_file on a path that does not exist (exists = FALSE, the file
\* is created) or that holds the bytes f.
open_file(exists, f) ==
    LET file_length == IF exists THEN Len(f) ELSE 0
        rooted == [NoPages EXCEPT ![0] = << <<>>, <<RootLeaf>> >>]
    IN  IF exists /\ file_length % PAGE_SIZE # 0
        THEN [res |-> "err",
              msg |-> "Db file length is not a valid number of pages. Corrupt file"]
        ELSE IF file_length = 0
        THEN [res |-> "ok",
              pager |-> [file_length |-> file_length, num_pages |-> 1, pages |-> rooted]]
        ELSE [res |-> "ok",
              pager |-> [file_length |-> file_length,
                         num_pages |-> file_length \div PAGE_SIZE,
                         pages |-> NoPages]]

\* "Internal", "Leaf", or "panic" (an empty slot, or an index past the Vec)
get_page_node_type(pager, page_num) ==
    IF page_num >= TABLE_MAX_PAGES THEN "panic"
    ELSE IF Len(pager.pages[page_num][1]) > 0 THEN "Internal"
    ELSE IF Len(pager.pages[page_num][2]) > 0 THEN "Leaf"
    ELSE "panic"

get_page_leaf(pager, page_num) ==
    IF page_num > TABLE_MAX_PAGES
    THEN [res |-> "err", msg |-> "Hit page limit for table"]
    ELSE IF page_num >= TABLE_MAX_PAGES
    THEN [res |-> "panic", msg |-> "index out of bounds"]
    ELSE IF Len(pager.pages[page_num][2]) > 0
    THEN [res |-> "ok", msg |-> "", node |-> pager.pages[page_num][2][1]]
    ELSE [res |-> "err",
          msg |-> "Error fetching page! Leaf node does not exist at page_num"]

get_page_internal(pager, page_num) ==
    IF page_num > TABLE_MAX_PAGES
    THEN [res |-> "err", msg |-> "Hit page limit for table"]
    ELSE IF page_num >= TABLE_MAX_PAGES
    THEN [res |-> "panic", msg |-> "index out of bounds"]
    ELSE IF Len(pager.pages[page_num][1]) > 0
    THEN [res |-> "ok", msg |-> "", node |-> pager.pages[page_num][1][1]]
    ELSE [res |-> "err",
          msg |-> "Error fetching page! Internal node does not exist at page_num"]

\* Materializes a leaf in an empty slot, from the file when the page lies
\* within the length the file had at open, and counts it in num_pages.
ensure_page_leaf(pager, f, page_num) ==
    IF page_num >= TABLE_MAX_PAGES
    THEN [res |-> "panic", pager |-> pager]
    ELSE IF Len(pager.pages[page_num][2]) > 0
    THEN [res |-> "ok", pager |-> pager]
    ELSE IF Len(pager.pages[page_num][1]) > 0
    THEN [res |-> "err", pager |-> pager]
    ELSE
        LET file_pages == pager.file_length \div PAGE_SIZE
            from_file == page_num < file_pages
            short == Len(f) < (page_num + 1) * PAGE_SIZE
            read == LeafNode_serialize_node(Slice(f, page_num * PAGE_SIZE, PAGE_SIZE))
            new_node == IF from_file THEN read.node ELSE LeafNode_new
        IN  IF from_file /\ (short \/ read.panic)
            THEN [res |-> "panic", pager |-> pager]
            ELSE [res |-> "ok",
                  pager |-> [pager EXCEPT !.pages[page_num] = << <<>>, <<new_node>> >>,
                                          !.num_pages = pager.num_pages + 1]]

\* The two leaves, in argument order.
get_two_pages_leaf(pager, first_page_num, second_page_num) ==
    LET lower == IF first_page_num < second_page_num
                 THEN first_page_num ELSE second_page_num
        higher == IF first_page_num < second_page_num
                  THEN second_page_num ELSE first_page_num
    IN  IF first_page_num = second_page_num
        THEN [res |-> "err", msg |-> "Tried to access same page num twice!"]
        ELSE IF first_page_num > TABLE_MAX_PAGES \/ second_page_num > TABLE_MAX_PAGES
        THEN [res |-> "err", msg |-> "Hit page limit for table"]
        ELSE IF Len(pager.pages[lower][2]) = 0
        THEN [res |-> "err", msg |-> "Requested page does not exist"]
        ELSE IF higher >= TABLE_MAX_PAGES
        THEN [res |-> "panic", msg |-> "index out of bounds"]
        ELSE IF Len(pager.pages[higher][2]) = 0
        THEN [res |-> "err", msg |-> "Requested page does not exist"]
        ELSE [res |-> "ok", msg |-> "",
              first |-> pager.pages[first_page_num][2][1],
              second |-> pager.pages[second_page_num][2][1]]

\* The internal node is taken from the slot of the lower page number and
\* the leaf from the slot of the higher one, whichever argument each is.
get_internal_and_leaf(pager, internal_page_num, leaf_page_num) ==
    LET lower == IF internal_page_num < leaf_page_num
                 THEN internal_page_num ELSE leaf_page_num
        higher == IF internal_page_num < leaf_page_num
                  THEN leaf_page_num ELSE internal_page_num
    IN  IF internal_page_num = leaf_page_num
        THEN [res |-> "err", msg |-> "Tried to access same page num twice!"]
        ELSE IF internal_page_num > TABLE_MAX_PAGES \/ leaf_page_num > TABLE_MAX_PAGES
        THEN [res |-> "err", msg |-> "Hit page limit for table"]
        ELSE IF Len(pager.pages[lower][1]) = 0
        THEN [res |-> "err", msg |-> "Requested page does not exist"]
        ELSE IF higher >= TABLE_MAX_PAGES
        THEN [res |-> "panic", msg |-> "index out of bounds"]
        ELSE IF Len(pager.pages[higher][2]) = 0
        THEN [res |-> "err", msg |-> "Requested page does not exist"]
        ELSE [res |-> "ok", msg |-> "",
              internal |-> pager.pages[lower][1][1],
              leaf |-> pager.pages[higher][2][1]]

get_unused_page_num(pager) == pager.num_pages

\* Pager::get_page, which db.rs's close_db calls, is not in pager.rs: a leaf
\* by page number, failing when the slot holds the other kind of node.
get_page(pager, page_num) == get_page_leaf(pager, page_num)

(***************************************************************************)
(* Cursor (cursor.rs).  A cursor is [page_num, cell_num, end_of_table];    *)
(* the table it borrows is passed beside it.                               *)
(***************************************************************************)
\* Starts at cell 0 of the root page, whatever kind of node the root is.
table_start(t) ==
    LET root_page_num == t.root_page_num
        kind == get_page_node_type(t.pager, root_page_num)
        root == get_page_leaf(t.pager, root_page_num)
        num_cells == IF kind = "Internal" THEN 1 ELSE root.node.num_cells
    IN  IF kind = "panic" \/ (kind = "Leaf" /\ root.res # "ok")
        THEN [panic |-> TRUE]
        ELSE [panic |-> FALSE,
              cursor |-> [page_num |-> root_page_num, cell_num |-> 0,
                          end_of_table |-> num_cells = 0]]

\* One past the last cell of the root page, which must hold a leaf.
table_end(t) ==
    LET root_page_num == t.root_page_num
        root == get_page_leaf(t.pager, root_page_num)
    IN  IF root.res # "ok"
        THEN [panic |-> TRUE]
        ELSE [panic |-> FALSE,
              cursor |-> [page_num |-> root_page_num, cell_num |-> root.node.num_cells,
                          end_of_table |-> TRUE]]

\* Moves one cell on within the page; the end of the page is the end of
\* the table.
advance_cursor(t, cursor) ==
    LET cell_num == cursor.cell_num + 1
        got == get_page_leaf(t.pager, cursor.page_num)
    IN  IF got.res # "ok"
        THEN [panic |-> TRUE]
        ELSE [panic |-> FALSE,
              cursor |-> [cursor EXCEPT !.cell_num = cell_num,
                                        !.end_of_table =
                                            IF cell_num >= got.node.num_cells
                                            THEN TRUE ELSE cursor.end_of_table]]

\* The page and byte offset of the cursor's row; panics on an internal node.
get_cursor_value(t, cursor) ==
    LET kind == get_page_node_type(t.pager, cursor.page_num)
        got == get_page_leaf(t.pager, cursor.page_num)
    IN  IF kind # "Leaf" \/ got.res # "ok"
        THEN [panic |-> TRUE]
        ELSE [panic |-> FALSE, node |-> got.node,
              off |-> get_cell_value(cursor.cell_num)]

(***************************************************************************)
(* The search for a key (leaf_node.rs, internal_node.rs, cursor.rs).       *)
(***************************************************************************)
\* The loop without its break on an equal key: an equal key sends the
\* search to the right.
RECURSIVE LeafFindLoop_upper_bound(_, _, _, _)
LeafFindLoop_upper_bound(node, key, min_index, max_index) ==
    IF min_index < max_index
    THEN LET index == (min_index + max_index) \div 2
             key_at_index == get_cell_key(node, index)
         IN  IF key < key_at_index
             THEN LeafFindLoop_upper_bound(node, key, min_index, index)
             ELSE LeafFindLoop_upper_bound(node, key, index + 1, max_index)
    ELSE (min_index + max_index) \div 2

\* the loop of LeafNode::node_find, from the bounds it has reached
RECURSIVE LeafFindLoop(_, _, _, _)
LeafFindLoop(node, key, min_index, max_index) ==
    IF min_index < max_index
    THEN LET index == (min_index + max_index) \div 2
             key_at_index == get_cell_key(node, index)
         IN  IF key = key_at_index
             THEN (min_index + max_index) \div 2
             ELSE IF key < key_at_index
             THEN LeafFindLoop(node, key, min_index, index)
             ELSE LeafFindLoop(node, key, index + 1, max_index)
    ELSE (min_index + max_index) \div 2

LeafNode_node_find(t, page_num, key) ==
    LET got == get_page_leaf(t.pager, page_num)
        cell_num == LeafFindLoop(got.node, key, 0, got.node.num_cells)
    IN  IF got.res # "ok"
        THEN [panic |-> TRUE]
        ELSE [panic |-> FALSE,
              cursor |-> [page_num |-> page_num, cell_num |-> cell_num,
                          end_of_table |-> got.node.num_cells = cell_num]]

\* the loop of InternalNode::find_child_index
RECURSIVE FindChildLoop(_, _, _, _)
FindChildLoop(node, key, min_index, max_index) ==
    IF min_index # max_index
    THEN LET index == (min_index + max_index) \div 2
             key_to_right == node.cells[index + 1][1]
         IN  IF key_to_right >= key
             THEN FindChildLoop(node, key, min_index, index)
             ELSE FindChildLoop(node, key, index + 1, max_index)
    ELSE min_index

find_child_index(node, key) == FindChildLoop(node, key, 0, node.num_keys)

\* <<page>>, or <<>> for the panic on a child_num past num_keys
get_child(node, child_num) ==
    IF child_num > node.num_keys THEN <<>>
    ELSE IF child_num = node.num_keys THEN <<node.right_child>>
    ELSE <<node.cells[child_num + 1][2]>>

\* depth bounds the descent
RECURSIVE InternalNode_node_find(_, _, _, _)
InternalNode_node_find(t, page_num, key, depth) ==
    LET got == get_page_internal(t.pager, page_num)
        child_index == find_child_index(got.node, key)
        child == get_child(got.node, child_index)
        kind == get_page_node_type(t.pager, child[1])
    IN  IF depth = 0 \/ got.res # "ok" \/ child = <<>> \/ kind = "panic"
        THEN [panic |-> TRUE]
        ELSE IF kind = "Internal"
        THEN InternalNode_node_find(t, child[1], key, depth - 1)
        ELSE LeafNode_node_find(t, child[1], key)

table_find(t, key) ==
    LET root_page_num == t.root_page_num
        kind == get_page_node_type(t.pager, root_page_num)
    IN  IF kind = "panic"
        THEN [panic |-> TRUE]
        ELSE IF kind = "Leaf"
        THEN LeafNode_node_find(t, root_page_num, key)
        ELSE InternalNode_node_find(t, root_page_num, key, TABLE_MAX_PAGES)

(***************************************************************************)
(* InternalNode::create_new_root_from_leaf (internal_node.rs).  The root   *)
(* leaf has just been split into the root page and right_page_num.  The    *)
(* source assigns the leaves' field "parent", which LeafNode does not have; *)
(* parent_ptr is the field meant.                                          *)
(***************************************************************************)
create_new_root_from_leaf_right_key(t, right_page_num) ==
    LET left_child_page_num == get_unused_page_num(t.pager)
        old_root == get_page_leaf(t.pager, t.root_page_num)
        p1 == [t.pager EXCEPT !.pages[left_child_page_num] = << <<>>, <<old_root.node>> >>]
        two == get_two_pages_leaf(p1, left_child_page_num, right_page_num)
        new_root_node ==
            [InternalNode_new EXCEPT !.is_root = TRUE,
                                     !.num_keys = 1,
                                     !.cells[1] = <<get_max_key(two.second),
                                                    left_child_page_num>>,
                                     !.right_child = right_page_num]
        p2 == [p1 EXCEPT !.pages[left_child_page_num][2] =
                             <<[two.first EXCEPT !.is_root = FALSE,
                                                 !.parent_ptr = t.root_page_num]>>,
                         !.pages[right_page_num][2] =
                             <<[two.second EXCEPT !.parent_ptr = t.root_page_num]>>,
                         !.num_pages = p1.num_pages + 1,
                         !.pages[t.root_page_num] = << <<new_root_node>>, <<>> >>]
    IN  IF old_root.res # "ok" \/ left_child_page_num >= TABLE_MAX_PAGES
               \/ two.res # "ok"
        THEN [panic |-> TRUE, table |-> t]
        ELSE [panic |-> FALSE, table |-> [t EXCEPT !.pager = p2]]

create_new_root_from_leaf_keeps_is_root(t, right_page_num) ==
    LET left_child_page_num == get_unused_page_num(t.pager)
        old_root == get_page_leaf(t.pager, t.root_page_num)
        p1 == [t.pager EXCEPT !.pages[left_child_page_num] = << <<>>, <<old_root.node>> >>]
        two == get_two_pages_leaf(p1, left_child_page_num, right_page_num)
        new_root_node ==
            [InternalNode_new EXCEPT !.is_root = TRUE,
                                     !.num_keys = 1,
                                     !.cells[1] = <<get_max_key(two.first),
                                                    left_child_page_num>>,
                                     !.right_child = right_page_num]
        p2 == [p1 EXCEPT !.pages[left_child_page_num][2] =
                             <<[two.first EXCEPT !.parent_ptr = t.root_page_num]>>,
                         !.pages[right_page_num][2] =
                             <<[two.second EXCEPT !.parent_ptr = t.root_page_num]>>,
                         !.num_pages = p1.num_pages + 1,
                         !.pages[t.root_page_num] = << <<new_root_node>>, <<>> >>]
    IN  IF old_root.res # "ok" \/ left_child_page_num >= TABLE_MAX_PAGES
               \/ two.res # "ok"
        THEN [panic |-> TRUE, table |-> t]
        ELSE [panic |-> FALSE, table |-> [t EXCEPT !.pager = p2]]

create_new_root_from_leaf_right_child_is_left(t, right_page_num) ==
    LET left_child_page_num == get_unused_page_num(t.pager)
        old_root == get_page_leaf(t.pager, t.root_page_num)
        p1 == [t.pager EXCEPT !.pages[left_child_page_num] = << <<>>, <<old_root.node>> >>]
        two == get_two_pages_leaf(p1, left_child_page_num, right_page_num)
        new_root_node ==
            [InternalNode_new EXCEPT !.is_root = TRUE,
                                     !.num_keys = 1,
                                     !.cells[1] = <<get_max_key(two.first),
                                                    left_child_page_num>>,
                                     !.right_child = left_child_page_num]
        p2 == [p1 EXCEPT !.pages[left_child_page_num][2] =
                             <<[two.first EXCEPT !.is_root = FALSE,
                                                 !.parent_ptr = t.root_page_num]>>,
                         !.pages[right_page_num][2] =
                             <<[two.second EXCEPT !.parent_ptr = t.root_page_num]>>,
                         !.num_pages = p1.num_pages + 1,
                         !.pages[t.root_page_num] = << <<new_root_node>>, <<>> >>]
    IN  IF old_root.res # "ok" \/ left_child_page_num >= TABLE_MAX_PAGES
               \/ two.res # "ok"
        THEN [panic |-> TRUE, table |-> t]
        ELSE [panic |-> FALSE, table |-> [t EXCEPT !.pager = p2]]

create_new_root_from_leaf_no_keys(t, right_page_num) ==
    LET left_child_page_num == get_unused_page_num(t.pager)
        old_root == get_page_leaf(t.pager, t.root_page_num)
        p1 == [t.pager EXCEPT !.pages[left_child_page_num] = << <<>>, <<old_root.node>> >>]
        two == get_two_pages_leaf(p1, left_child_page_num, right_page_num)
        left_node_max_key == get_max_key(two.first)
        left_child_node == [two.first EXCEPT !.is_root = FALSE,
                                             !.parent_ptr = t.root_page_num]
        right_child_node == [two.second EXCEPT !.parent_ptr = t.root_page_num]
        new_root_node ==
            [InternalNode_new EXCEPT !.is_root = TRUE,
                                     !.cells[1] = <<left_node_max_key, left_child_page_num>>,
                                     !.right_child = right_page_num]
        p2 == [p1 EXCEPT !.pages[left_child_page_num][2] = <<left_child_node>>,
                         !.pages[right_page_num][2] = <<right_child_node>>,
                         !.num_pages = p1.num_pages + 1,
                         !.pages[t.root_page_num] = << <<new_root_node>>, <<>> >>]
    IN  IF old_root.res # "ok" \/ left_child_page_num >= TABLE_MAX_PAGES
        THEN [panic |-> TRUE, table |-> t]
        ELSE IF two.res # "ok"
        THEN [panic |-> TRUE, table |-> [t EXCEPT !.pager = p1]]
        ELSE [panic |-> FALSE, table |-> [t EXCEPT !.pager = p2]]

\* create_new_root_from_leaf putting the internal node beside the old root leaf
create_new_root_from_leaf_keeps_leaf(t, right_page_num) ==
    LET left_child_page_num == get_unused_page_num(t.pager)
        old_root == get_page_leaf(t.pager, t.root_page_num)
        p1 == [t.pager EXCEPT !.pages[left_child_page_num] = << <<>>, <<old_root.node>> >>]
        two == get_two_pages_leaf(p1, left_child_page_num, right_page_num)
        left_node_max_key == get_max_key(two.first)
        left_child_node == [two.first EXCEPT !.is_root = FALSE,
                                             !.parent_ptr = t.root_page_num]
        right_child_node == [two.second EXCEPT !.parent_ptr = t.root_page_num]
        new_root_node ==
            [InternalNode_new EXCEPT !.is_root = TRUE,
                                     !.num_keys = 1,
                                     !.cells[1] = <<left_node_max_key, left_child_page_num>>,
                                     !.right_child = right_page_num]
        p2 == [p1 EXCEPT !.pages[left_child_page_num][2] = <<left_child_node>>,
                         !.pages[right_page_num][2] = <<right_child_node>>,
                         !.num_pages = p1.num_pages + 1,
                         !.pages[t.root_page_num] =
                             << <<new_root_node>>, p1.pages[t.root_page_num][2] >>]
    IN  IF old_root.res # "ok" \/ left_child_page_num >= TABLE_MAX_PAGES
        THEN [panic |-> TRUE, table |-> t]
        ELSE IF two.res # "ok"
        THEN [panic |-> TRUE, table |-> [t EXCEPT !.pager = p1]]
        ELSE [panic |-> FALSE, table |-> [t EXCEPT !.pager = p2]]

create_new_root_from_leaf(t, right_page_num) ==
    LET left_child_page_num == get_unused_page_num(t.pager)
        old_root == get_page_leaf(t.pager, t.root_page_num)
        p1 == [t.pager EXCEPT !.pages[left_child_page_num] = << <<>>, <<old_root.node>> >>]
        two == get_two_pages_leaf(p1, left_child_page_num, right_page_num)
        left_node_max_key == get_max_key(two.first)
        left_child_node == [two.first EXCEPT !.is_root = FALSE,
                                             !.parent_ptr = t.root_page_num]
        right_child_node == [two.second EXCEPT !.parent_ptr = t.root_page_num]
        new_root_node ==
            [InternalNode_new EXCEPT !.is_root = TRUE,
                                     !.num_keys = 1,
                                     !.cells[1] = <<left_node_max_key, left_child_page_num>>,
                                     !.right_child = right_page_num]
        p2 == [p1 EXCEPT !.pages[left_child_page_num][2] = <<left_child_node>>,
                         !.pages[right_page_num][2] = <<right_child_node>>,
                         !.num_pages = p1.num_pages + 1,
                         !.pages[t.root_page_num] = << <<new_root_node>>, <<>> >>]
    IN  IF old_root.res # "ok" \/ left_child_page_num >= TABLE_MAX_PAGES
        THEN [panic |-> TRUE, table |-> t]
        ELSE IF two.res # "ok"
        THEN [panic |-> TRUE, table |-> [t EXCEPT !.pager = p1]]
        ELSE [panic |-> FALSE, table |-> [t EXCEPT !.pager = p2]]

(***************************************************************************)
(* InternalNode::update_internal_node_key and internal_node_insert         *)
(* (internal_node.rs), with Pager::get_nodes_for_internal_node_insert      *)
(* (pager.rs).                                                             *)
(***************************************************************************)
\* The cell at find_child_index(old_max) gets the key; the index is
\* num_keys when old_max is above every key, and an index of
\* INTERNAL_NODE_MAX_CELLS is outside the array.
update_internal_node_key(node, old_max, new_key) ==
    LET old_child_index == find_child_index(node, old_max)
    IN  IF old_child_index >= INTERNAL_NODE_MAX_CELLS
        THEN [panic |-> TRUE, node |-> node]
        ELSE [panic |-> FALSE,
              node |-> [node EXCEPT !.cells[old_child_index + 1] =
                                        <<new_key, node.cells[old_child_index + 1][2]>>]]

\* <<lower_idx, middle_idx, upper_idx>> as the source orders the three pages
ThreePagesOrder(parent_page_num, child_page_num, right_child_page_num) ==
    IF parent_page_num < child_page_num
    THEN IF child_page_num < right_child_page_num
         THEN <<parent_page_num, child_page_num, right_child_page_num>>
         ELSE IF parent_page_num < right_child_page_num
         THEN <<parent_page_num, right_child_page_num, child_page_num>>
         ELSE <<right_child_page_num, parent_page_num, child_page_num>>
    ELSE IF parent_page_num < right_child_page_num
         THEN <<child_page_num, parent_page_num, right_child_page_num>>
         ELSE IF child_page_num < right_child_page_num
         THEN <<child_page_num, right_child_page_num, parent_page_num>>
         ELSE <<right_child_page_num, child_page_num, parent_page_num>>

\* The parent, the child and the parent's right child, the two leaves
\* materialized first.  The three slices are pages[.. middle_idx],
\* pages[middle_idx .. upper_idx] and pages[upper_idx ..]: lower[lower_idx]
\* needs lower_idx < middle_idx and middle[0] needs middle_idx < upper_idx.
\* The caller unwraps, so an Err is a panic as well.
get_nodes_for_internal_node_insert(pager, f, parent_page_num, child_page_num) ==
    LET tmp_parent == get_page_internal(pager, parent_page_num)
        right_child_page_num == tmp_parent.node.right_child
        e1 == ensure_page_leaf(pager, f, child_page_num)
        e2 == ensure_page_leaf(e1.pager, f, right_child_page_num)
        order == ThreePagesOrder(parent_page_num, child_page_num, right_child_page_num)
        lower_idx == order[1]
        middle_idx == order[2]
        upper_idx == order[3]
        parent_at == IF lower_idx = parent_page_num THEN lower_idx
                     ELSE IF middle_idx = parent_page_num THEN middle_idx
                     ELSE upper_idx
        child_at ==
            IF lower_idx = parent_page_num
            THEN (IF middle_idx = child_page_num THEN middle_idx ELSE upper_idx)
            ELSE IF middle_idx = parent_page_num
            THEN (IF lower_idx = child_page_num THEN lower_idx ELSE upper_idx)
            ELSE (IF lower_idx = child_page_num THEN lower_idx ELSE middle_idx)
        right_at ==
            IF lower_idx = parent_page_num
            THEN (IF middle_idx = child_page_num THEN upper_idx ELSE middle_idx)
            ELSE IF middle_idx = parent_page_num
            THEN (IF lower_idx = child_page_num THEN upper_idx ELSE lower_idx)
            ELSE (IF lower_idx = child_page_num THEN middle_idx ELSE lower_idx)
    IN  IF parent_page_num > TABLE_MAX_PAGES \/ child_page_num > TABLE_MAX_PAGES
        THEN [panic |-> TRUE, pager |-> pager]
        ELSE IF tmp_parent.res # "ok"
        THEN [panic |-> TRUE, pager |-> pager]
        ELSE IF right_child_page_num = 0
        THEN [panic |-> TRUE, pager |-> pager]
        ELSE IF e1.res # "ok"
        THEN [panic |-> TRUE, pager |-> pager]
        ELSE IF e2.res # "ok"
        THEN [panic |-> TRUE, pager |-> e1.pager]
        ELSE IF ~(lower_idx < middle_idx /\ middle_idx < upper_idx)
        THEN [panic |-> TRUE, pager |-> e2.pager]
        ELSE IF \/ Len(e2.pager.pages[parent_at][1]) = 0
                \/ Len(e2.pager.pages[child_at][2]) = 0
                \/ Len(e2.pager.pages[right_at][2]) = 0
        THEN [panic |-> TRUE, pager |-> e2.pager]
        ELSE [panic |-> FALSE, pager |-> e2.pager,
              parent |-> e2.pager.pages[parent_at][1][1],
              child |-> e2.pager.pages[child_at][2][1],
              right_child |-> e2.pager.pages[right_at][2][1]]

\* The loop "for i in (child_index ..= original_num_keys).rev()" at index i:
\* cells[i] = cells[i - 1], where i - 1 underflows at i = 0 and the pass
\* panics.
RECURSIVE MakeRoom(_, _, _)
MakeRoom(cells, i, child_index) ==
    IF i < child_index
    THEN [panic |-> FALSE, cells |-> cells]
    ELSE IF i = 0 \/ i >= INTERNAL_NODE_MAX_CELLS
    THEN [panic |-> TRUE, cells |-> cells]
    ELSE MakeRoom([cells EXCEPT ![i + 1] = cells[i]], i - 1, child_index)

\* num_keys is raised before the check for a full node.  get_max_key of a
\* leaf without a cell underflows num_cells - 1 and panics.
internal_node_insert(t, f, parent_page_num, child_page_num) ==
    LET got == get_nodes_for_internal_node_insert(t.pager, f, parent_page_num,
                                                  child_page_num)
        parent == got.parent
        child_max_key == get_max_key(got.child)
        child_index == find_child_index(parent, child_max_key)
        original_num_keys == parent.num_keys
        raised == [parent EXCEPT !.num_keys = original_num_keys + 1]
        right_child_page_num == parent.right_child
        right_child_max_key == get_max_key(got.right_child)
        room == MakeRoom(raised.cells, original_num_keys, child_index)
        replaced == [raised EXCEPT !.cells[original_num_keys + 1] =
                                       <<right_child_max_key, right_child_page_num>>,
                                   !.right_child = child_page_num]
        placed == [raised EXCEPT !.cells =
                       [room.cells EXCEPT ![child_index + 1] =
                                              <<child_max_key, child_page_num>>]]
        With(node) == [t EXCEPT !.pager =
                          [got.pager EXCEPT !.pages[parent_page_num][1] = <<node>>]]
    IN  IF got.panic
        THEN [panic |-> TRUE, table |-> [t EXCEPT !.pager = got.pager]]
        ELSE IF got.child.num_cells = 0
        THEN [panic |-> TRUE, table |-> [t EXCEPT !.pager = got.pager]]
        ELSE IF original_num_keys >= INTERNAL_NODE_MAX_CELLS
        THEN [panic |-> TRUE, table |-> With(raised)]
        ELSE IF got.right_child.num_cells = 0
        THEN [panic |-> TRUE, table |-> With(raised)]
        ELSE IF child_max_key > right_child_max_key
        THEN [panic |-> FALSE, table |-> With(replaced)]
        ELSE IF room.panic
        THEN [panic |-> TRUE, table |-> With([raised EXCEPT !.cells = room.cells])]
        ELSE [panic |-> FALSE, table |-> With(placed)]

(***************************************************************************)
(* LeafNode::insert and its split (leaf_node.rs).                          *)
(***************************************************************************)
requires_split_and_insert_gt(t, cursor) ==
    LET got == get_page_leaf(t.pager, cursor.page_num)
    IN  IF got.res # "ok"
        THEN [panic |-> TRUE, split |-> FALSE]
        ELSE [panic |-> FALSE, split |-> got.node.num_cells > LEAF_NODE_MAX_CELLS]

requires_split_and_insert(t, cursor) ==
    LET got == get_page_leaf(t.pager, cursor.page_num)
    IN  IF got.res # "ok"
        THEN [panic |-> TRUE, split |-> FALSE]
        ELSE [panic |-> FALSE, split |-> got.node.num_cells >= LEAF_NODE_MAX_CELLS]

\* for i in (lo..=i).rev(): cell i := cell i - 1
RECURSIVE ShiftCells(_, _, _)
ShiftCells(cells, i, lo) ==
    IF i < lo
    THEN cells
    ELSE ShiftCells(CopyTo(cells, get_cell(i),
                           Slice(cells, get_cell(i - 1), LEAF_NODE_CELL_SIZE)),
                    i - 1, lo)

\* The loop with cell LEAF_NODE_LEFT_SPLIT_COUNT kept in the old leaf.
RECURSIVE SplitLoop_left_heavy(_, _, _, _, _, _)
SplitLoop_left_heavy(i, old_node, new_node, cursor, key, row) ==
    IF i < 0
    THEN [panic |-> FALSE, old_node |-> old_node, new_node |-> new_node]
    ELSE
        LET to_new == i > LEAF_NODE_LEFT_SPLIT_COUNT
            index_within_node == i % LEAF_NODE_LEFT_SPLIT_COUNT
            destination == get_cell(index_within_node)
            dest_cells == IF to_new THEN new_node.cells ELSE old_node.cells
            keyed == CopyTo(dest_cells, destination + LEAF_NODE_KEY_OFFSET, U32Bytes(key))
            ser == serialize_row(row, keyed, destination + LEAF_NODE_VALUE_OFFSET)
            cell_to_move ==
                IF i > cursor.cell_num
                THEN Slice(old_node.cells, get_cell(i - 1), LEAF_NODE_CELL_SIZE)
                ELSE Slice(old_node.cells, get_cell(i), LEAF_NODE_CELL_SIZE)
            written == IF i = cursor.cell_num
                       THEN ser.buf
                       ELSE CopyTo(dest_cells, destination, cell_to_move)
            old1 == IF to_new THEN old_node ELSE [old_node EXCEPT !.cells = written]
            new1 == IF to_new THEN [new_node EXCEPT !.cells = written] ELSE new_node
        IN  IF i = cursor.cell_num /\ ~ser.ok
            THEN [panic |-> TRUE, old_node |-> old1, new_node |-> new1]
            ELSE SplitLoop_left_heavy(i - 1, old1, new1, cursor, key, row)

\* The loop of split_and_insert at index i, going down to 0.  Cells are
\* read from old_node as the loop has left it.  A cell copied onto itself
\* stays as it is.  serialize_row(..).unwrap() panics on a long string,
\* after the key is written.
RECURSIVE SplitLoop(_, _, _, _, _, _)
SplitLoop(i, old_node, new_node, cursor, key, row) ==
    IF i < 0
    THEN [panic |-> FALSE, old_node |-> old_node, new_node |-> new_node]
    ELSE
        LET to_new == i >= LEAF_NODE_LEFT_SPLIT_COUNT
            index_within_node == i % LEAF_NODE_LEFT_SPLIT_COUNT
            destination == get_cell(index_within_node)
            dest_cells == IF to_new THEN new_node.cells ELSE old_node.cells
            keyed == CopyTo(dest_cells, destination + LEAF_NODE_KEY_OFFSET, U32Bytes(key))
            ser == serialize_row(row, keyed, destination + LEAF_NODE_VALUE_OFFSET)
            cell_to_move ==
                IF i > cursor.cell_num
                THEN Slice(old_node.cells, get_cell(i - 1), LEAF_NODE_CELL_SIZE)
                ELSE Slice(old_node.cells, get_cell(i), LEAF_NODE_CELL_SIZE)
            written == IF i = cursor.cell_num
                       THEN ser.buf
                       ELSE CopyTo(dest_cells, destination, cell_to_move)
            old1 == IF to_new THEN old_node ELSE [old_node EXCEPT !.cells = written]
            new1 == IF to_new THEN [new_node EXCEPT !.cells = written] ELSE new_node
        IN  IF i = cursor.cell_num /\ ~ser.ok
            THEN [panic |-> TRUE, old_node |-> old1, new_node |-> new1]
            ELSE SplitLoop(i - 1, old1, new1, cursor, key, row)

\* split_and_insert leaving next_leaf of the old leaf as it was
split_and_insert_no_sibling_link(t, f, cursor, key, row) ==
    LET old_page_num == cursor.page_num
        new_page_num == get_unused_page_num(t.pager)
        e1 == ensure_page_leaf(t.pager, f, old_page_num)
        e2 == ensure_page_leaf(e1.pager, f, new_page_num)
        two == get_two_pages_leaf(e2.pager, old_page_num, new_page_num)
        loop == SplitLoop(LEAF_NODE_MAX_CELLS, two.first, two.second, cursor, key, row)
        old_node == [loop.old_node EXCEPT !.num_cells = LEAF_NODE_LEFT_SPLIT_COUNT]
        new_node == [loop.new_node EXCEPT !.num_cells = LEAF_NODE_RIGHT_SPLIT_COUNT,
                                          !.next_leaf = loop.old_node.next_leaf]
        written(o, n) == [e2.pager EXCEPT !.pages[old_page_num][2] = <<o>>,
                                          !.pages[new_page_num][2] = <<n>>]
        t1 == [t EXCEPT !.pager = written(old_node, new_node)]
    IN  IF e1.res # "ok"
        THEN [panic |-> TRUE, table |-> t]
        ELSE IF e2.res # "ok"
        THEN [panic |-> TRUE, table |-> [t EXCEPT !.pager = e1.pager]]
        ELSE IF old_page_num >= new_page_num \/ two.res # "ok"
        THEN [panic |-> TRUE, table |-> [t EXCEPT !.pager = e2.pager]]
        ELSE IF loop.panic
        THEN [panic |-> TRUE,
              table |-> [t EXCEPT !.pager = written(loop.old_node, loop.new_node)]]
        ELSE IF old_node.is_root
        THEN create_new_root_from_leaf(t1, new_page_num)
        ELSE [panic |-> FALSE, table |-> t1]

split_and_insert(t, f, cursor, key, row) ==
    LET old_page_num == cursor.page_num
        new_page_num == get_unused_page_num(t.pager)
        e1 == ensure_page_leaf(t.pager, f, old_page_num)
        e2 == ensure_page_leaf(e1.pager, f, new_page_num)
        two == get_two_pages_leaf(e2.pager, old_page_num, new_page_num)
        loop == SplitLoop(LEAF_NODE_MAX_CELLS, two.first, two.second, cursor, key, row)
        old_node == [loop.old_node EXCEPT !.num_cells = LEAF_NODE_LEFT_SPLIT_COUNT,
                                          !.next_leaf = new_page_num]
        new_node == [loop.new_node EXCEPT !.num_cells = LEAF_NODE_RIGHT_SPLIT_COUNT,
                                          !.next_leaf = loop.old_node.next_leaf]
        written(o, n) == [e2.pager EXCEPT !.pages[old_page_num][2] = <<o>>,
                                          !.pages[new_page_num][2] = <<n>>]
        t1 == [t EXCEPT !.pager = written(old_node, new_node)]
    IN  IF e1.res # "ok"
        THEN [panic |-> TRUE, table |-> t]
        ELSE IF e2.res # "ok"
        THEN [panic |-> TRUE, table |-> [t EXCEPT !.pager = e1.pager]]
        ELSE IF old_page_num >= new_page_num \/ two.res # "ok"
        THEN [panic |-> TRUE, table |-> [t EXCEPT !.pager = e2.pager]]
        ELSE IF loop.panic
        THEN [panic |-> TRUE,
              table |-> [t EXCEPT !.pager = written(loop.old_node, loop.new_node)]]
        ELSE IF old_node.is_root
        THEN create_new_root_from_leaf(t1, new_page_num)
        ELSE [panic |-> FALSE, table |-> t1]

\* Some pass of the loop of split_and_insert writes a cell that lies
\* outside the cells array of its destination.
SplitWritesOob ==
    \E i \in 0..LEAF_NODE_MAX_CELLS :
        i % LEAF_NODE_LEFT_SPLIT_COUNT >= LEAF_NODE_MAX_CELLS

\* The split branch of LeafNode::insert returns what split_and_insert left:
\* nothing is logged and insert itself writes no cell.
InsertBySplit(sp) ==
    [panic |-> sp.panic, table |-> sp.table, err |-> "", oob |-> SplitWritesOob,
     entered |-> TRUE]

\* LeafNode::insert without the increment of num_cells.
LeafNode_insert_keeps_num_cells(t, f, cursor, key, row) ==
    LET req == requires_split_and_insert(t, cursor)
        sp == split_and_insert(t, f, cursor, key, row)
        page_num == cursor.page_num
        node == get_page_leaf(t.pager, page_num).node
        num_cells == node.num_cells
        shifted == IF cursor.cell_num < num_cells
                   THEN ShiftCells(node.cells, num_cells, cursor.cell_num + 1)
                   ELSE node.cells
        keyed == CopyTo(shifted, get_cell(cursor.cell_num) + LEAF_NODE_KEY_OFFSET,
                        U32Bytes(key))
        ser == serialize_row(row, keyed, get_cell_value(cursor.cell_num))
        node1 == [node EXCEPT !.cells = ser.buf]
    IN  IF req.panic
        THEN [panic |-> TRUE, table |-> t, err |-> "", oob |-> FALSE, entered |-> TRUE]
        ELSE IF req.split
        THEN InsertBySplit(sp)
        ELSE [panic |-> FALSE,
              table |-> [t EXCEPT !.pager.pages[page_num][2] = <<node1>>],
              err |-> ser.err,
              oob |-> cursor.cell_num >= LEAF_NODE_MAX_CELLS
                        \/ num_cells >= LEAF_NODE_MAX_CELLS,
              entered |-> TRUE]

\* The result says whether the statement panicked, the table it left, the
\* error it logged ("" for none), whether it wrote a cell that lies outside
\* the cells array (oob) and whether LeafNode::insert was entered.
LeafNode_insert(t, f, cursor, key, row) ==
    LET req == requires_split_and_insert(t, cursor)
        sp == split_and_insert(t, f, cursor, key, row)
        page_num == cursor.page_num
        node == get_page_leaf(t.pager, page_num).node
        num_cells == node.num_cells
        shifted == IF cursor.cell_num < num_cells
                   THEN ShiftCells(node.cells, num_cells, cursor.cell_num + 1)
                   ELSE node.cells
        keyed == CopyTo(shifted, get_cell(cursor.cell_num) + LEAF_NODE_KEY_OFFSET,
                        U32Bytes(key))
        ser == serialize_row(row, keyed, get_cell_value(cursor.cell_num))
        node1 == [node EXCEPT !.num_cells = num_cells + 1, !.cells = ser.buf]
    IN  IF req.panic
        THEN [panic |-> TRUE, table |-> t, err |-> "", oob |-> FALSE, entered |-> TRUE]
        ELSE IF req.split
        THEN InsertBySplit(sp)
        ELSE [panic |-> FALSE,
              table |-> [t EXCEPT !.pager.pages[page_num][2] = <<node1>>],
              err |-> ser.err,
              oob |-> cursor.cell_num >= LEAF_NODE_MAX_CELLS
                        \/ num_cells >= LEAF_NODE_MAX_CELLS,
              entered |-> TRUE]

(***************************************************************************)
(* Statements and close (db.rs).                                           *)
(***************************************************************************)
\* Table::new and Db::new: open_file(..).unwrap(), root_page_num 0
Db_new(exists, f) ==
    LET opened == open_file(exists, f)
    IN  IF opened.res # "ok"
        THEN [panic |-> TRUE]
        ELSE [panic |-> FALSE, table |-> [root_page_num |-> 0, pager |-> opened.pager]]

\* The cursor is table_end, whatever the key: there is no search for the
\* key's place and no check for a key already stored.
execute_insert_statement(t, f, row) ==
    LET c == table_end(t)
    IN  IF c.panic
        THEN [panic |-> TRUE, table |-> t, err |-> "", oob |-> FALSE, entered |-> FALSE]
        ELSE LeafNode_insert(t, f, c.cursor, row.id, row)

\* The loop of execute_select_statement: rows is what has been emitted.
RECURSIVE SelectLoop(_, _, _)
SelectLoop(t, cursor, rows) ==
    IF cursor.end_of_table
    THEN [panic |-> FALSE, rows |-> rows]
    ELSE
        LET row_slot == get_cursor_value(t, cursor)
            de == deserialize_row(row_slot.node.cells, row_slot.off)
            adv == advance_cursor(t, cursor)
        IN  IF row_slot.panic
            THEN [panic |-> TRUE, rows |-> rows]
            ELSE IF de.panic
            THEN [panic |-> TRUE, rows |-> rows]
            ELSE IF adv.panic
            THEN [panic |-> TRUE, rows |-> Append(rows, de.row)]
            ELSE SelectLoop(t, adv.cursor, Append(rows, de.row))

execute_select_statement(t) ==
    LET c == table_start(t)
    IN  IF c.panic THEN [panic |-> TRUE, rows |-> <<>>]
        ELSE SelectLoop(t, c.cursor, <<>>)

\* a write that stops one byte short of the buffer's end
WriteAllAt_short(f, bytes, off) ==
    LET len == Len(bytes) - 1
        n == IF Len(f) > off + len THEN Len(f) ELSE off + len
    IN  [i \in 1..n |->
            IF i > off /\ i <= off + len THEN bytes[i - off]
            ELSE IF i <= Len(f) THEN f[i] ELSE 0]

\* File::write_all_at: the file grows to hold the bytes, zero-filled between
WriteAllAt(f, bytes, off) ==
    LET n == IF Len(f) > off + Len(bytes) THEN Len(f) ELSE off + Len(bytes)
    IN  [i \in 1..n |->
            IF i > off /\ i <= off + Len(bytes) THEN bytes[i - off]
            ELSE IF i <= Len(f) THEN f[i] ELSE 0]

\* The loop of close_db: one page image written per cursor position, the
\* k-th at offset PAGE_SIZE * k, whatever the page's own number.
RECURSIVE CloseLoop(_, _, _, _)
CloseLoop(t, f, cursor, pages_written) ==
    IF cursor.end_of_table
    THEN [panic |-> FALSE, file |-> f]
    ELSE
        LET got == get_page(t.pager, cursor.page_num)
            page_to_write == LeafNode_deserialize_node(got.node, Filled(PAGE_SIZE, 0))
            f1 == WriteAllAt(f, page_to_write, PAGE_SIZE * pages_written)
            adv == advance_cursor(t, cursor)
        IN  IF got.res # "ok"
            THEN [panic |-> TRUE, file |-> f]
            ELSE IF adv.panic
            THEN [panic |-> TRUE, file |-> f1]
            ELSE CloseLoop(t, f1, adv.cursor, pages_written + 1)

close_db(t, f) ==
    LET c == table_start(t)
    IN  IF c.panic THEN [panic |-> TRUE, file |-> f]
        ELSE CloseLoop(t, f, c.cursor, 0)

(***************************************************************************)
(* The statements' inputs.                                                 *)
(***************************************************************************)
Str(n, c) == [i \in 1..n |-> c]

StrLens == (0..MaxShort) \cup {MAX_STRING_SIZE, MAX_STRING_SIZE + 1}

\* usernames are runs of "a", emails runs of "b"
Usernames == {Str(n, 97) : n \in StrLens}
Emails == {Str(n, 98) : n \in StrLens}

\* The rows of insert statements.  prepare_statement takes the username and
\* the email from split_whitespace, so neither is empty.
Rows ==
    {r \in [id : 1..MaxKey, username : Usernames, email : Emails] :
        Len(r.username) > 0 /\ Len(r.email) > 0}

NoRow == [id |-> 0, username |-> <<>>, email |-> <<>>]

NoUnit == [fn |-> "none"]

(***************************************************************************)
(* The store as a state machine: one Db instance at a time on one file.    *)
(***************************************************************************)
\* Db::new on a path that does not exist
Init ==
    /\ table = Db_new(FALSE, <<>>).table
    /\ file = <<>>
    /\ phase = "open"
    /\ out = <<>>
    /\ last = [op |-> "open", ok |-> TRUE, row |-> NoRow, err |-> "", oob |-> FALSE]
    /\ stmts = <<>>
    /\ fresh = TRUE
    /\ closed = <<>>
    /\ reopened = FALSE
    /\ unit = NoUnit

\* An insert statement that also writes the root page's image to the file.
Insert_write_through(row) ==
    /\ phase = "open"
    /\ \E r \in {execute_insert_statement(table, file, row)} :
           /\ table' = r.table
           /\ phase' = IF r.panic THEN "crashed" ELSE "open"
           /\ last' = [op |-> "insert", ok |-> ~r.panic,
                       row |-> IF r.entered THEN row ELSE NoRow,
                       err |-> r.err, oob |-> r.oob]
           /\ stmts' = IF r.panic THEN stmts ELSE Append(stmts, row)
           /\ file' = WriteAllAt(file, Filled(PAGE_SIZE, 0), 0)
    /\ out' = <<>>
    /\ UNCHANGED <<fresh, closed, reopened, unit>>

\* run_db_test("insert <id> <username> <email>").  last keeps the row
\* unless the statement panicked before LeafNode::insert was given it;
\* stmts keeps the rows of the statements that returned.
Insert(row) ==
    /\ phase = "open"
    /\ \E r \in {execute_insert_statement(table, file, row)} :
           /\ table' = r.table
           /\ phase' = IF r.panic THEN "crashed" ELSE "open"
           /\ last' = [op |-> "insert", ok |-> ~r.panic,
                       row |-> IF r.entered THEN row ELSE NoRow,
                       err |-> r.err, oob |-> r.oob]
           /\ stmts' = IF r.panic THEN stmts ELSE Append(stmts, row)
    /\ out' = <<>>
    /\ UNCHANGED <<file, fresh, closed, reopened, unit>>

\* run_db_test("select")
Select ==
    /\ phase = "open"
    /\ \E r \in {execute_select_statement(table)} :
           /\ out' = r.rows
           /\ phase' = IF r.panic THEN "crashed" ELSE "open"
           /\ last' = [op |-> "select", ok |-> ~r.panic, row |-> NoRow,
                       err |-> "", oob |-> FALSE]
    /\ UNCHANGED <<table, file, stmts, fresh, closed, reopened, unit>>

\* run_db_test of a line that prepare_statement does not take for a select
\* or an insert ("print_tree" among them: UnrecognizedCommand), or of an
\* insert without exactly three arguments (SyntaxError): it is logged.
Unrecognized ==
    /\ phase = "open"
    /\ last' = [op |-> "unrecognized", ok |-> TRUE, row |-> NoRow,
                err |-> "", oob |-> FALSE]
    /\ out' = <<>>
    /\ UNCHANGED <<table, file, phase, stmts, fresh, closed, reopened, unit>>

\* Db::close_db; the Db stays usable after it.  closed keeps what a select
\* just before the close yields, with the statements that led there.
Close ==
    /\ phase = "open"
    /\ \E r \in {close_db(table, file)} :
           /\ file' = r.file
           /\ phase' = IF r.panic THEN "crashed" ELSE "open"
           /\ last' = [op |-> "close", ok |-> ~r.panic, row |-> NoRow,
                       err |-> "", oob |-> FALSE]
           /\ closed' = IF r.panic THEN closed
                        ELSE <<[rows |-> execute_select_statement(table).rows,
                                stmts |-> stmts, fresh |-> fresh]>>
    /\ out' = <<>>
    /\ UNCHANGED <<table, stmts, fresh, reopened, unit>>

\* The Db is dropped, or its process has ended, and Db::new opens the file
\* again.
Reopen ==
    /\ \E r \in {Db_new(TRUE, file)} :
           /\ table' = IF r.panic THEN table ELSE r.table
           /\ phase' = IF r.panic THEN "crashed" ELSE "open"
           /\ last' = [op |-> "open", ok |-> ~r.panic, row |-> NoRow,
                       err |-> "", oob |-> FALSE]
    /\ reopened' = (phase = "open" /\ last.op = "close" /\ last.ok)
    /\ fresh' = (Len(file) = 0)
    /\ stmts' = <<>>
    /\ out' = <<>>
    /\ UNCHANGED <<file, closed, unit>>

Next ==
    \/ \E row \in Rows : Insert(row)
    \/ Select
    \/ Unrecognized
    \/ Close
    \/ Reopen

Spec == Init /\ [][Next]_vars

(***************************************************************************)
(* The row codec on its own: serialize_row into a buffer, then             *)
(* deserialize_row from it.                                                *)
(***************************************************************************)
\* ids whose bytes differ in every position; 2^31 - 1 is the largest integer
\* TLC evaluates
CodecIds == {0, 1, 258, 2147483647}

CodecRows == [id : CodecIds, username : Usernames, email : Emails]

\* what the destination holds before the row is written
CodecFills == {0, 7}

\* where in the buffer the row goes: its start, or a cell's value
CodecOffsets == {0, LEAF_NODE_VALUE_OFFSET}

InitCodec ==
    /\ table = Db_new(FALSE, <<>>).table
    /\ file = <<>>
    /\ phase = "open"
    /\ out = <<>>
    /\ last = [op |-> "open", ok |-> TRUE, row |-> NoRow, err |-> "", oob |-> FALSE]
    /\ stmts = <<>>
    /\ fresh = TRUE
    /\ closed = <<>>
    /\ reopened = FALSE
    /\ unit \in {[fn |-> "codec", pc |-> "start", row |-> r, off |-> o,
                  buf |-> Filled(LEAF_NODE_CELL_SIZE, v), err |-> "",
                  decoded |-> NoRow] :
                 r \in CodecRows, o \in CodecOffsets, v \in CodecFills}

CodecSerialize ==
    /\ unit.pc = "start"
    /\ \E r \in {serialize_row(unit.row, unit.buf, unit.off)} :
           unit' = [unit EXCEPT !.pc = IF r.ok THEN "serialized" ELSE "failed",
                                !.buf = r.buf, !.err = r.err]
    /\ UNCHANGED <<table, file, phase, out, last, stmts, fresh, closed, reopened>>

CodecDeserialize ==
    /\ unit.pc = "serialized"
    /\ \E r \in {deserialize_row(unit.buf, unit.off)} :
           unit' = [unit EXCEPT !.pc = IF r.panic THEN "crashed" ELSE "done",
                                !.decoded = r.row]
    /\ UNCHANGED <<table, file, phase, out, last, stmts, fresh, closed, reopened>>

NextCodec ==
    \/ CodecSerialize
    \/ CodecDeserialize

SpecCodec == InitCodec /\ [][NextCodec]_vars

(***************************************************************************)
(* Opening a path: the path does not exist, or it is a file of any length, *)
(* whole pages or not, and Db::new is called on it once.                   *)
(***************************************************************************)
\* files hold up to MaxOpenPages whole pages and a remainder
MaxOpenPages == 3
OpenRemainders == {0, 1, 2, PAGE_SIZE \div 2, PAGE_SIZE - 2, PAGE_SIZE - 1}
OpenLengths == {k * PAGE_SIZE + d : k \in 0..MaxOpenPages, d \in OpenRemainders}
OpenFills == {0, 1, 255}
OpenFiles == {Filled(n, v) : n \in OpenLengths, v \in OpenFills}

InitOpen ==
    /\ table = Db_new(FALSE, <<>>).table
    /\ file = <<>>
    /\ phase = "open"
    /\ out = <<>>
    /\ last = [op |-> "open", ok |-> TRUE, row |-> NoRow, err |-> "", oob |-> FALSE]
    /\ stmts = <<>>
    /\ fresh = TRUE
    /\ closed = <<>>
    /\ reopened = FALSE
    /\ unit \in {[fn |-> "open", pc |-> "start", exists |-> e, file |-> f,
                  res |-> "", msg |-> "", pager |-> <<>>, panic |-> FALSE] :
                 e \in BOOLEAN, f \in OpenFiles}
    /\ (~unit.exists) => unit.file = <<>>

\* Db::new: Table::new unwraps what Pager::open_file returns.
OpenDb ==
    /\ unit.pc = "start"
    /\ \E r \in {open_file(unit.exists, unit.file)} :
       \E d \in {Db_new(unit.exists, unit.file)} :
           unit' = [unit EXCEPT !.pc = IF d.panic THEN "crashed" ELSE "opened",
                                !.res = r.res,
                                !.msg = IF r.res = "ok" THEN "" ELSE r.msg,
                                !.pager = IF r.res = "ok" THEN <<r.pager>> ELSE <<>>,
                                !.panic = d.panic]
    /\ UNCHANGED <<table, file, phase, out, last, stmts, fresh, closed, reopened>>

NextOpen == OpenDb

SpecOpen == InitOpen /\ [][NextOpen]_vars

(***************************************************************************)
(* LeafNode::node_find on one leaf: the leaf holds strictly ascending keys *)
(* in its cells, over a cell area of any earlier content, and is searched  *)
(* for one key.                                                            *)
(***************************************************************************)
\* keys are 0..MaxFindKey and two keys of more than one byte
MaxFindKey == 3
FindKeys == (0..MaxFindKey) \cup {258, 2147483647}
FindFills == {0, 7}
FindPages == {0, 1}

AscendingKeys ==
    {ks \in UNION {[1..n -> FindKeys] : n \in 0..LEAF_NODE_MAX_CELLS} :
        \A i \in 1..(Len(ks) - 1) : ks[i] < ks[i + 1]}

\* the cell area with keys[j..] written as the keys of cells j-1, ..
RECURSIVE PutKeys(_, _, _)
PutKeys(cells, keys, j) ==
    IF j > Len(keys) THEN cells
    ELSE PutKeys(CopyTo(cells, get_cell(j - 1) + LEAF_NODE_KEY_OFFSET,
                        U32Bytes(keys[j])), keys, j + 1)

LeafOf(keys, fill) ==
    [LeafNode_new EXCEPT !.num_cells = Len(keys),
                         !.cells = PutKeys(Filled(LEAF_NODE_SPACE_FOR_CELLS, fill),
                                           keys, 1)]

\* a table whose page p holds the leaf
TableOf(p, leaf) ==
    [root_page_num |-> 0,
     pager |-> [file_length |-> 0, num_pages |-> p + 1,
                pages |-> [NoPages EXCEPT ![p] = << <<>>, <<leaf>> >>]]]

InitLeafFind ==
    /\ table = Db_new(FALSE, <<>>).table
    /\ file = <<>>
    /\ phase = "open"
    /\ out = <<>>
    /\ last = [op |-> "open", ok |-> TRUE, row |-> NoRow, err |-> "", oob |-> FALSE]
    /\ stmts = <<>>
    /\ fresh = TRUE
    /\ closed = <<>>
    /\ reopened = FALSE
    /\ unit \in {[fn |-> "leaf_find", pc |-> "start", table |-> TableOf(p, LeafOf(ks, v)),
                  page_num |-> p, key |-> k, cursor |-> <<>>] :
                 p \in FindPages, ks \in AscendingKeys, v \in FindFills, k \in FindKeys}

LeafFind ==
    /\ unit.pc = "start"
    /\ \E r \in {LeafNode_node_find(unit.table, unit.page_num, unit.key)} :
           unit' = [unit EXCEPT !.pc = IF r.panic THEN "crashed" ELSE "done",
                                !.cursor = IF r.panic THEN <<>> ELSE <<r.cursor>>]
    /\ UNCHANGED <<table, file, phase, out, last, stmts, fresh, closed, reopened>>

NextLeafFind == LeafFind

SpecLeafFind == InitLeafFind /\ [][NextLeafFind]_vars

(***************************************************************************)
(* What the properties below speak of.                                     *)
(***************************************************************************)
\* a decoded string without the zero bytes that pad its slot
TrimPadding(s) ==
    LET used == {i \in 1..Len(s) : s[i] # 0}
        n == IF used = {} THEN 0 ELSE CHOOSE i \in used : \A j \in used : j <= i
    IN  SubSeq(s, 1, n)

Plain(row) ==
    [id |-> row.id, username |-> TrimPadding(row.username),
     email |-> TrimPadding(row.email)]

RowKeys(rows) == [i \in 1..Len(rows) |-> rows[i].id]

DistinctKeys(rows) ==
    \A i, j \in 1..Len(rows) : i # j => rows[i].id # rows[j].id

StrictlyAscending(keys) ==
    \A i \in 1..(Len(keys) - 1) : keys[i] < keys[i + 1]

FitsRow(row) ==
    Len(row.username) <= MAX_STRING_SIZE /\ Len(row.email) <= MAX_STRING_SIZE

AllFit(rows) == \A i \in 1..Len(rows) : FitsRow(rows[i])

PageNums == 0..(TABLE_MAX_PAGES - 1)

LeafPages(t) == {p \in PageNums : Len(t.pager.pages[p][2]) > 0}

InternalPages(t) == {p \in PageNums : Len(t.pager.pages[p][1]) > 0}

LeafAt(t, p) == t.pager.pages[p][2][1]

InternalAt(t, p) == t.pager.pages[p][1][1]

\* the keys of cells 0 .. num_cells - 1 of a leaf, in cell order
LeafKeys(node) == [i \in 1..node.num_cells |-> get_cell_key(node, i - 1)]

StoredKeys(t) ==
    UNION {{LeafKeys(LeafAt(t, p))[i] : i \in 1..LeafAt(t, p).num_cells} :
           p \in LeafPages(t)}

\* the keys stored under page p; depth bounds the descent
RECURSIVE SubtreeKeys(_, _, _)
SubtreeKeys(t, p, depth) ==
    IF p \in LeafPages(t)
    THEN {LeafKeys(LeafAt(t, p))[i] : i \in 1..LeafAt(t, p).num_cells}
    ELSE IF p \in InternalPages(t) /\ depth > 0
    THEN LET node == InternalAt(t, p)
             children == {node.cells[i][2] : i \in 1..node.num_keys}
                             \cup {node.right_child}
         IN  UNION {SubtreeKeys(t, c, depth - 1) : c \in children \cap PageNums}
    ELSE {}

\* the leaf reached from page p by taking the first child at every level
RECURSIVE LeftmostLeaf(_, _, _)
LeftmostLeaf(t, p, depth) ==
    IF p \in InternalPages(t) /\ depth > 0
    THEN LET node == InternalAt(t, p)
         IN  LeftmostLeaf(t, IF node.num_keys > 0 THEN node.cells[1][2]
                                ELSE node.right_child, depth - 1)
    ELSE p

\* the pages reached from leaf p by following next_leaf, at most n of them
RECURSIVE LeafChain(_, _, _)
LeafChain(t, p, n) ==
    IF n = 0 \/ p \notin LeafPages(t)
    THEN <<>>
    ELSE IF LeafAt(t, p).next_leaf = 0
    THEN <<p>>
    ELSE <<p>> \o LeafChain(t, LeafAt(t, p).next_leaf, n - 1)

RECURSIVE Flatten(_)
Flatten(seqs) ==
    IF seqs = <<>> THEN <<>> ELSE Head(seqs) \o Flatten(Tail(seqs))

\* the keys met along the chain of leaves that starts at the leftmost leaf
ChainKeys(t) ==
    LET chain == LeafChain(t, LeftmostLeaf(t, t.root_page_num, TABLE_MAX_PAGES),
                           TABLE_MAX_PAGES)
    IN  Flatten([i \in 1..Len(chain) |-> LeafKeys(LeafAt(t, chain[i]))])

ChainEnds(t) ==
    LET chain == LeafChain(t, LeftmostLeaf(t, t.root_page_num, TABLE_MAX_PAGES),
                           TABLE_MAX_PAGES)
    IN  Len(chain) > 0 /\ LeafAt(t, chain[Len(chain)]).next_leaf = 0

(***************************************************************************)
(* C1: on a freshly created store, after inserts with pairwise distinct    *)
(* keys (each row's strings within 64 bytes), a select returns and emits   *)
(* one row per inserted row, in strictly ascending key order, with the     *)
(* username and email given at insert (compared without slot padding).     *)
(***************************************************************************)
C1_SelectIsSortedMap ==
    (last.op = "select" /\ fresh /\ DistinctKeys(stmts) /\ AllFit(stmts))
        => /\ last.ok
           /\ Len(out) = Len(stmts)
           /\ StrictlyAscending(RowKeys(out))
           /\ {Plain(out[i]) : i \in 1..Len(out)} = {stmts[i] : i \in 1..Len(stmts)}

(***************************************************************************)
(* C2: an insert of a key that is already stored leaves the tree as it     *)
(* was: every page, every count, every link and num_pages.                 *)
(***************************************************************************)
C2_DuplicateLeavesTreeUnchanged ==
    [][(last'.op = "insert" /\ last'.row.id \in StoredKeys(table))
            => table' = table]_vars

(***************************************************************************)
(* C3: after inserts with distinct keys on a fresh file, a close and a     *)
(* reopen, a select returns and yields the rows a select yielded before    *)
(* the close, in the same order.                                           *)
(***************************************************************************)
C3_PersistenceRoundTrip ==
    (/\ last.op = "select"
     /\ reopened
     /\ closed # <<>>
     /\ stmts = <<>>
     /\ closed[1].fresh
     /\ DistinctKeys(closed[1].stmts)
     /\ AllFit(closed[1].stmts))
        => (last.ok /\ out = closed[1].rows)

(***************************************************************************)
(* C4: after inserts (distinct keys, on a fresh store) the leaves reached  *)
(* by following next_leaf from the leftmost leaf hold strictly ascending   *)
(* keys, the chain ends at a leaf whose next_leaf is 0, and it holds       *)
(* every inserted key exactly once.                                        *)
(***************************************************************************)
C4_LeafChainAscending ==
    (phase = "open" /\ fresh /\ DistinctKeys(stmts) /\ AllFit(stmts))
        => /\ StrictlyAscending(ChainKeys(table))
           /\ ChainEnds(table)
           /\ Len(ChainKeys(table)) = Len(stmts)
           /\ {ChainKeys(table)[i] : i \in 1..Len(ChainKeys(table))}
                  = {stmts[i].id : i \in 1..Len(stmts)}

MaxOf(S) == CHOOSE x \in S : \A y \in S : y <= x

C6_LeafWithinCapacity ==
    /\ \A p \in LeafPages(table) : LeafAt(table, p).num_cells <= LEAF_NODE_MAX_CELLS
    /\ ~last.oob

\* An insert into a full root leaf has returned: the leaf was split.
C6_Witness ==
    /\ last.op = "insert"
    /\ last.ok
    /\ InternalPages(table) # {}
    /\ \E p \in LeafPages(table) : LeafAt(table, p).num_cells = LEAF_NODE_MAX_CELLS

(***************************************************************************)
(* C7: in every reachable state, for every internal node and every         *)
(* i < num_keys, the separator key of cell i is the largest key stored in  *)
(* the subtree of the cell's child.                                        *)
(***************************************************************************)
C7_SeparatorIsSubtreeMax ==
    \A p \in InternalPages(table) :
        \A i \in 1..InternalAt(table, p).num_keys :
            LET cell == InternalAt(table, p).cells[i]
                keys == SubtreeKeys(table, cell[2], TABLE_MAX_PAGES)
            IN  keys # {} /\ cell[1] = MaxOf(keys)

\* The root is an internal node whose two children hold different keys.
C7_Witness ==
    /\ phase = "open"
    /\ table.root_page_num \in InternalPages(table)
    /\ InternalAt(table, table.root_page_num).num_keys = 1
    /\ Cardinality(StoredKeys(table)) = 2

(***************************************************************************)
(* C8: LEAF_NODE_MAX_CELLS + 1 distinct keys inserted into an empty store  *)
(* leave a root internal node with one separator and two leaf children     *)
(* that hold LEAF_NODE_MAX_CELLS + 1 cells together, the separator being   *)
(* the left leaf's largest key, and a select then returns all the rows in  *)
(* ascending key order.                                                    *)
(***************************************************************************)
C8_HeightTwoAfterSplit ==
    (/\ last.op = "select"
     /\ fresh
     /\ Len(stmts) = LEAF_NODE_MAX_CELLS + 1
     /\ DistinctKeys(stmts)
     /\ AllFit(stmts))
        => /\ table.root_page_num \in InternalPages(table)
           /\ LET root == InternalAt(table, table.root_page_num)
                  left == root.cells[1][2]
                  right == root.right_child
              IN  /\ root.num_keys = 1
                  /\ {left, right} \subseteq LeafPages(table)
                  /\ LeafAt(table, left).num_cells + LeafAt(table, right).num_cells
                         = LEAF_NODE_MAX_CELLS + 1
                  /\ root.cells[1][1] = get_max_key(LeafAt(table, left))
           /\ last.ok
           /\ Len(out) = LEAF_NODE_MAX_CELLS + 1
           /\ StrictlyAscending(RowKeys(out))
           /\ {out[i].id : i \in 1..Len(out)} = {stmts[i].id : i \in 1..Len(stmts)}

(***************************************************************************)
(* C9: an insert whose username or email is longer than 64 bytes returns   *)
(* and leaves the table as it was: no num_cells grows, no key is written,  *)
(* no page is allocated; the leaf may be full or not.                      *)
(***************************************************************************)
C9_LongStringChangesNothing ==
    [][(last'.op = "insert" /\ last'.row # NoRow /\ ~FitsRow(last'.row))
            => (last'.ok /\ table' = table)]_vars

(***************************************************************************)
(* C10: for every row whose username and email are at most 64 bytes,       *)
(* deserialize_row of what serialize_row wrote is the row, field for       *)
(* field: the decoded strings do not hold the padding.                     *)
(***************************************************************************)
C10_CodecRoundTrip ==
    (unit.fn = "codec" /\ unit.pc = "done" /\ FitsRow(unit.row))
        => unit.decoded = unit.row

\* the pages whose node, leaf or internal, has is_root set
RootNodes(t) ==
    {p \in LeafPages(t) : LeafAt(t, p).is_root}
        \cup {p \in InternalPages(t) : InternalAt(t, p).is_root}

(***************************************************************************)
(* C11 as stated: in every reachable state exactly one materialized node   *)
(* has is_root set, it is the node at root_page_num, and root_page_num is  *)
(* 0.                                                                      *)
(***************************************************************************)
C11_ExactlyOneRoot ==
    /\ table.root_page_num = 0
    /\ RootNodes(table) = {table.root_page_num}

(***************************************************************************)
(* C11 as amended: root_page_num is 0 in every reachable state, no node    *)
(* but the one at root_page_num has is_root set, and that node has it set  *)
(* whenever the root page is materialized.                                 *)
(***************************************************************************)
C11_OneRootWhenMaterialized ==
    /\ table.root_page_num = 0
    /\ RootNodes(table) \subseteq {table.root_page_num}
    /\ (table.root_page_num \in LeafPages(table) \cup InternalPages(table))
           => RootNodes(table) = {table.root_page_num}

\* A split has replaced the root in place: three nodes are materialized.
C11_Witness ==
    /\ phase = "open"
    /\ table.root_page_num \in InternalPages(table)
    /\ Cardinality(LeafPages(table)) = 2

\* the pages an internal node refers to: cells 0 .. num_keys - 1 and right_child
ChildrenOf(node) == {node.cells[i][2] : i \in 1..node.num_keys} \cup {node.right_child}

\* the parent_ptr of the node at page p, leaf or internal
ParentOf(t, p) ==
    IF p \in LeafPages(t) THEN LeafAt(t, p).parent_ptr ELSE InternalAt(t, p).parent_ptr

CursorOnCell(t, cursor) ==
    \/ cursor.end_of_table
    \/ /\ cursor.page_num \in LeafPages(t)
       /\ cursor.cell_num < LeafAt(t, cursor.page_num).num_cells

(***************************************************************************)
(* C13: in every state of a live Db the cursor that table_start returns,   *)
(* and the cursor advance_cursor makes of it, is at the end of the table   *)
(* or on a cell of a leaf, so that get_cursor_value does not panic on an   *)
(* internal node, also once the root is an internal node.                  *)
(***************************************************************************)
C13_CursorStaysOnLeaf ==
    (phase = "open" /\ ~table_start(table).panic) =>
        LET start == table_start(table).cursor
        IN  /\ CursorOnCell(table, start)
            /\ ~get_cursor_value(table, start).panic
                   => (~advance_cursor(table, start).panic
                       /\ CursorOnCell(table, advance_cursor(table, start).cursor))

\* the PAGE_SIZE bytes deserialize_node makes of the node in slot p
PageImage(t, p) ==
    IF p \in InternalPages(t)
    THEN InternalNode_deserialize_node(InternalAt(t, p), Filled(PAGE_SIZE, 0))
    ELSE LeafNode_deserialize_node(LeafAt(t, p), Filled(PAGE_SIZE, 0))

(***************************************************************************)
(* C14: close_db returns, and afterwards the file holds, for every         *)
(* materialized page p, leaf or internal, the image of the node in slot p  *)
(* at bytes p * PAGE_SIZE .. (p + 1) * PAGE_SIZE - 1.                      *)
(***************************************************************************)
C14_CloseWritesEveryPage ==
    last.op = "close" =>
        /\ last.ok
        /\ \A p \in LeafPages(table) \cup InternalPages(table) :
               /\ Len(file) >= (p + 1) * PAGE_SIZE
               /\ Slice(file, p * PAGE_SIZE, PAGE_SIZE) = PageImage(table, p)

(***************************************************************************)
(* C15: no statement writes to the file: an insert, a select or a line     *)
(* that is neither (print_tree is one) leaves the file's bytes and length  *)
(* as they were.                                                           *)
(***************************************************************************)
C15_StatementsLeaveFile ==
    [][last'.op \in {"insert", "select", "unrecognized"} => file' = file]_vars

\* An insert has split the root leaf of a store whose file close_db had
\* written before: the file still is the one page close_db wrote.
C15_Witness ==
    /\ last.op = "insert"
    /\ last.ok
    /\ closed # <<>>
    /\ Len(file) = PAGE_SIZE
    /\ InternalPages(table) # {}

\* the slots of a pager that hold a node
Materialized(pager) ==
    {p \in 0..(TABLE_MAX_PAGES - 1) : pager.pages[p] # << <<>>, <<>> >>}

(***************************************************************************)
(* C16: opening a file that exists and whose length is not a multiple of   *)
(* PAGE_SIZE fails with the corrupt-file error: no pager is returned, so   *)
(* no page is read or materialized.                                        *)
(***************************************************************************)
C16_PartialPageRejected ==
    (unit.fn = "open" /\ unit.pc # "start" /\ unit.exists
            /\ Len(unit.file) % PAGE_SIZE # 0)
        => /\ unit.res = "err"
           /\ unit.msg = "Db file length is not a valid number of pages. Corrupt file"
           /\ unit.pager = <<>>
           /\ unit.panic

\* Db::new has run on a file of two pages and one byte.
C16_Witness ==
    /\ unit.fn = "open"
    /\ unit.pc = "crashed"
    /\ unit.exists
    /\ Len(unit.file) = 2 * PAGE_SIZE + 1

(***************************************************************************)
(* C17: opening a path that does not exist, or a file of length 0, gives a *)
(* pager whose page 0 is an empty leaf with is_root set, no cell and       *)
(* next_leaf 0, whose num_pages is 1 and whose other slots are empty.      *)
(***************************************************************************)
C17_EmptyStoreHasRootLeaf ==
    (unit.fn = "open" /\ unit.pc # "start"
            /\ (~unit.exists \/ Len(unit.file) = 0))
        => /\ unit.res = "ok"
           /\ ~unit.panic
           /\ unit.pager # <<>>
           /\ LET pager == unit.pager[1]
                  slot == pager.pages[0]
              IN  /\ pager.num_pages = 1
                  /\ Materialized(pager) = {0}
                  /\ slot[1] = <<>>
                  /\ slot[2] # <<>>
                  /\ slot[2][1].is_root
                  /\ slot[2][1].num_cells = 0
                  /\ slot[2][1].next_leaf = 0

\* Db::new has run on a file that exists and is empty.
C17_Witness ==
    /\ unit.fn = "open"
    /\ unit.pc = "opened"
    /\ unit.exists
    /\ unit.file = <<>>

\* the number of cells a scan meets before it reaches the cursor, or -1 for
\* a cursor on a page the scan does not pass
ScanPosition(t, cursor) ==
    LET chain == LeafChain(t, LeftmostLeaf(t, t.root_page_num, TABLE_MAX_PAGES),
                           TABLE_MAX_PAGES)
        at == {i \in 1..Len(chain) : chain[i] = cursor.page_num}
    IN  IF at = {} THEN -1
        ELSE LET i == CHOOSE j \in at : TRUE
             IN  Len(Flatten([j \in 1..(i - 1) |-> LeafKeys(LeafAt(t, chain[j]))]))
                     + cursor.cell_num

(***************************************************************************)
(* C18: on every tree of a live Db and for every key k, table_find returns *)
(* a cursor on a leaf; if k is stored the cursor's cell holds k, otherwise *)
(* every key a scan meets before the cursor is below k and every key it    *)
(* meets at or after the cursor is above k.                                *)
(***************************************************************************)
C18_FindLocatesKey ==
    phase = "open" =>
        \A k \in 0..(MaxKey + 1) :
            \E r \in {table_find(table, k)} :
                /\ ~r.panic
                /\ r.cursor.page_num \in LeafPages(table)
                /\ LET leaf == LeafAt(table, r.cursor.page_num)
                       keys == ChainKeys(table)
                       pos == ScanPosition(table, r.cursor)
                   IN  IF k \in StoredKeys(table)
                       THEN /\ r.cursor.cell_num < leaf.num_cells
                            /\ get_cell_key(leaf, r.cursor.cell_num) = k
                       ELSE /\ pos >= 0
                            /\ pos <= Len(keys)
                            /\ \A i \in 1..pos : keys[i] < k
                            /\ \A i \in (pos + 1)..Len(keys) : keys[i] > k

(***************************************************************************)
(* C19: on a leaf of strictly ascending keys, LeafNode::node_find returns  *)
(* as cell_num the least index whose key is at least the key sought, or    *)
(* num_cells when there is none; end_of_table is set exactly when cell_num *)
(* is num_cells; a key that is stored lands on its own cell.               *)
(***************************************************************************)
C19_LeafFindIsLowerBound ==
    (unit.fn = "leaf_find" /\ unit.pc # "start") =>
        /\ unit.pc = "done"
        /\ LET node == LeafAt(unit.table, unit.page_num)
               keys == LeafKeys(node)
               cursor == unit.cursor[1]
               at_least == {i \in 0..(node.num_cells - 1) : keys[i + 1] >= unit.key}
           IN  /\ cursor.page_num = unit.page_num
               /\ cursor.cell_num =
                      IF at_least = {} THEN node.num_cells
                      ELSE CHOOSE i \in at_least : \A j \in at_least : i <= j
               /\ cursor.end_of_table <=> (cursor.cell_num = node.num_cells)
               /\ \A i \in 0..(node.num_cells - 1) :
                      keys[i + 1] = unit.key => cursor.cell_num = i

\* a full leaf has been searched for the key of its last cell
C19_Witness ==
    /\ unit.fn = "leaf_find"
    /\ unit.pc = "done"
    /\ LeafAt(unit.table, unit.page_num).num_cells = LEAF_NODE_MAX_CELLS
    /\ get_max_key(LeafAt(unit.table, unit.page_num)) = unit.key
    /\ unit.key > 256

(***************************************************************************)
(* LeafNode::insert on a full leaf: the tree is the one one or two insert  *)
(* statements built on a new file, the cursor is on any cell of one of its *)
(* leaves or one past its last cell, and the row is any row.               *)
(***************************************************************************)
SplitTables ==
    LET one == {execute_insert_statement(Db_new(FALSE, <<>>).table, <<>>, r).table :
                    r \in {x \in Rows : FitsRow(x)}}
        two == {execute_insert_statement(t, <<>>, r).table :
                    t \in one, r \in {x \in Rows : FitsRow(x) /\ Len(x.username) = 1}}
    IN  one \cup two

InitSplit ==
    /\ table = Db_new(FALSE, <<>>).table
    /\ file = <<>>
    /\ phase = "open"
    /\ out = <<>>
    /\ last = [op |-> "open", ok |-> TRUE, row |-> NoRow, err |-> "", oob |-> FALSE]
    /\ stmts = <<>>
    /\ fresh = TRUE
    /\ closed = <<>>
    /\ reopened = FALSE
    /\ \E t \in SplitTables : \E p \in LeafPages(t) :
       \E c \in 0..LEAF_NODE_MAX_CELLS : \E r \in Rows :
           unit = [fn |-> "split", pc |-> "start", table |-> t,
                   cursor |-> [page_num |-> p, cell_num |-> c,
                               end_of_table |-> c >= LeafAt(t, p).num_cells],
                   row |-> r, after |-> <<>>]

SplitInsert ==
    /\ unit.pc = "start"
    /\ \E r \in {LeafNode_insert(unit.table, <<>>, unit.cursor, unit.row.id, unit.row)} :
           unit' = [unit EXCEPT !.pc = IF r.panic THEN "crashed" ELSE "done",
                                !.after = <<r.table>>]
    /\ UNCHANGED <<table, file, phase, out, last, stmts, fresh, closed, reopened>>

NextSplit == SplitInsert

SpecSplit == InitSplit /\ [][NextSplit]_vars

\* cells 0 .. num_cells - 1 of a leaf, each as its bytes
LeafCells(node) ==
    [i \in 1..node.num_cells |-> Slice(node.cells, get_cell(i - 1), LEAF_NODE_CELL_SIZE)]

\* the cell that holds the key and the row
CellOf(key, row) ==
    serialize_row(row,
                  CopyTo(Filled(LEAF_NODE_CELL_SIZE, 0), LEAF_NODE_KEY_OFFSET,
                         U32Bytes(key)),
                  LEAF_NODE_VALUE_OFFSET).buf

(***************************************************************************)
(* C20: when LeafNode::insert of a row that fits meets a full leaf, the    *)
(* old leaf is left with LEAF_NODE_LEFT_SPLIT_COUNT cells and the new leaf *)
(* with LEAF_NODE_RIGHT_SPLIT_COUNT cells, and the cells of the old leaf   *)
(* followed by those of the new leaf are the cells the leaf had, with the  *)
(* cell of the key and the row put in at index cursor.cell_num; this for   *)
(* every cursor.cell_num in 0 .. LEAF_NODE_MAX_CELLS.                      *)
(***************************************************************************)
C20_SplitPreservesCells ==
    (unit.fn = "split" /\ unit.pc # "start" /\ FitsRow(unit.row)) =>
        /\ unit.pc = "done"
        /\ LET before == unit.table
               after == unit.after[1]
               c == unit.cursor.cell_num
               pre == LeafAt(before, unit.cursor.page_num)
               new_page_num == get_unused_page_num(before.pager)
               old_page_num ==
                   IF pre.is_root
                   THEN InternalAt(after, after.root_page_num).cells[1][2]
                   ELSE unit.cursor.page_num
               had == LeafCells(pre)
           IN  /\ pre.num_cells = LEAF_NODE_MAX_CELLS
               /\ old_page_num \in LeafPages(after)
               /\ new_page_num \in LeafPages(after)
               /\ LeafAt(after, old_page_num).num_cells = LEAF_NODE_LEFT_SPLIT_COUNT
               /\ LeafAt(after, new_page_num).num_cells = LEAF_NODE_RIGHT_SPLIT_COUNT
               /\ LeafCells(LeafAt(after, old_page_num))
                      \o LeafCells(LeafAt(after, new_page_num))
                    = SubSeq(had, 1, c) \o <<CellOf(unit.row.id, unit.row)>>
                          \o SubSeq(had, c + 1, Len(had))

\* the row went in before the cell of a full root leaf
C20_Witness ==
    /\ unit.fn = "split"
    /\ unit.pc = "done"
    /\ unit.cursor.cell_num = 0
    /\ LeafAt(unit.table, unit.cursor.page_num).is_root
    /\ get_max_key(LeafAt(unit.table, unit.cursor.page_num)) # unit.row.id

(***************************************************************************)
(* LeafNode::insert on a leaf that has room: the leaf is on page 0 or 1,   *)
(* root or not, holds fewer than LEAF_NODE_MAX_CELLS cells of ascending    *)
(* keys over a cell area of any earlier content, and the cursor is on one  *)
(* of its cells or one past the last.                                      *)
(***************************************************************************)
RoomyKeys == {ks \in AscendingKeys : Len(ks) < LEAF_NODE_MAX_CELLS}

InitLeafInsert ==
    /\ table = Db_new(FALSE, <<>>).table
    /\ file = <<>>
    /\ phase = "open"
    /\ out = <<>>
    /\ last = [op |-> "open", ok |-> TRUE, row |-> NoRow, err |-> "", oob |-> FALSE]
    /\ stmts = <<>>
    /\ fresh = TRUE
    /\ closed = <<>>
    /\ reopened = FALSE
    /\ \E p \in FindPages : \E ks \in RoomyKeys : \E v \in FindFills :
       \E root \in BOOLEAN : \E c \in 0..Len(ks) : \E r \in Rows :
           unit = [fn |-> "leaf_insert", pc |-> "start",
                   table |-> TableOf(p, [LeafOf(ks, v) EXCEPT !.is_root = root]),
                   cursor |-> [page_num |-> p, cell_num |-> c,
                               end_of_table |-> c >= Len(ks)],
                   row |-> r, after |-> <<>>, err |-> ""]

LeafInsert ==
    /\ unit.pc = "start"
    /\ \E r \in {LeafNode_insert(unit.table, <<>>, unit.cursor, unit.row.id, unit.row)} :
           unit' = [unit EXCEPT !.pc = IF r.panic THEN "crashed" ELSE "done",
                                !.after = <<r.table>>,
                                !.err = r.err]
    /\ UNCHANGED <<table, file, phase, out, last, stmts, fresh, closed, reopened>>

NextLeafInsert == LeafInsert

SpecLeafInsert == InitLeafInsert /\ [][NextLeafInsert]_vars

(***************************************************************************)
(* C21: LeafNode::insert of a row that fits into a leaf with room leaves   *)
(* the cells below cursor.cell_num as they were, the cells from            *)
(* cursor.cell_num on one slot to the right, the key and the serialized    *)
(* row at cursor.cell_num and num_cells one higher; no other page, no      *)
(* next_leaf and not num_pages changes.                                    *)
(***************************************************************************)
C21_InsertShiftsCells ==
    (unit.fn = "leaf_insert" /\ unit.pc # "start" /\ FitsRow(unit.row)) =>
        /\ unit.pc = "done"
        /\ unit.err = ""
        /\ LET before == unit.table
               after == unit.after[1]
               p == unit.cursor.page_num
               c == unit.cursor.cell_num
               pre == LeafAt(before, p)
               had == LeafCells(pre)
           IN  /\ p \in LeafPages(after)
               /\ LeafAt(after, p).num_cells = pre.num_cells + 1
               /\ LeafCells(LeafAt(after, p))
                    = SubSeq(had, 1, c) \o <<CellOf(unit.row.id, unit.row)>>
                          \o SubSeq(had, c + 1, Len(had))
               /\ LeafAt(after, p).next_leaf = pre.next_leaf
               /\ LeafAt(after, p).is_root = pre.is_root
               /\ LeafAt(after, p).parent_ptr = pre.parent_ptr
               /\ \A q \in PageNums \ {p} : after.pager.pages[q] = before.pager.pages[q]
               /\ after.pager.num_pages = before.pager.num_pages
               /\ after.root_page_num = before.root_page_num

\* a row of two full strings went into an empty leaf whose cell area held
\* stale bytes
C21_Witness ==
    /\ unit.fn = "leaf_insert"
    /\ unit.pc = "done"
    /\ Len(unit.row.username) = MAX_STRING_SIZE
    /\ Len(unit.row.email) = MAX_STRING_SIZE
    /\ LeafAt(unit.table, unit.cursor.page_num).cells[1] # 0
    /\ LeafAt(unit.after[1], unit.cursor.page_num).num_cells = 1

\* the pages reached from page p through child pointers; depth bounds the
\* descent
RECURSIVE ReachableFrom(_, _, _)
ReachableFrom(t, p, depth) ==
    IF p \in InternalPages(t) /\ depth > 0
    THEN {p} \cup UNION {ReachableFrom(t, q, depth - 1) : q \in ChildrenOf(InternalAt(t, p))}
    ELSE {p}

(***************************************************************************)
(* C22: when LeafNode::insert splits a leaf that is not the root, the      *)
(* parent has, after the insert, the old leaf's max key as the key of the  *)
(* cell that refers to the old leaf (when a cell refers to it), and the    *)
(* new leaf among its children, so that every leaf of the next_leaf chain  *)
(* is reached from the root through child pointers.                        *)
(***************************************************************************)
C22_ParentUpdatedOnSplit ==
    (unit.fn = "split" /\ unit.pc = "done"
            /\ ~LeafAt(unit.table, unit.cursor.page_num).is_root) =>
        LET after == unit.after[1]
            old_page_num == unit.cursor.page_num
            new_page_num == get_unused_page_num(unit.table.pager)
            parent == InternalAt(after, LeafAt(after, old_page_num).parent_ptr)
            chain == LeafChain(after, LeftmostLeaf(after, after.root_page_num, TABLE_MAX_PAGES),
                               TABLE_MAX_PAGES)
        IN  /\ new_page_num \in ChildrenOf(parent)
            /\ \A i \in 1..parent.num_keys :
                   parent.cells[i][2] = old_page_num
                       => parent.cells[i][1] = get_max_key(LeafAt(after, old_page_num))
            /\ \A i \in 1..Len(chain) :
                   chain[i] \in ReachableFrom(after, after.root_page_num, TABLE_MAX_PAGES)

(***************************************************************************)
(* C23: after the split of a root leaf into the root page and a right      *)
(* page, create_new_root_from_leaf has put the left half on a page that    *)
(* held no node before and is neither the root page nor the right page,    *)
(* with is_root cleared; both leaves have the root page as parent; and the *)
(* root page holds an internal node with is_root set, one key, cell 0 =    *)
(* (max key of the left leaf, left page) and right_child = the right page. *)
(* root_page_num is as before.                                             *)
(***************************************************************************)
C23_NewRootOverTwoLeaves ==
    (unit.fn = "split" /\ unit.pc = "done"
            /\ LeafAt(unit.table, unit.cursor.page_num).is_root) =>
        LET before == unit.table
            after == unit.after[1]
            root_page_num == before.root_page_num
            right_page_num == get_unused_page_num(before.pager)
            root == InternalAt(after, root_page_num)
            left_page_num == root.cells[1][2]
        IN  /\ after.root_page_num = root_page_num
            /\ root_page_num \in InternalPages(after)
            /\ root_page_num \notin LeafPages(after)
            /\ root.is_root
            /\ root.num_keys = 1
            /\ root.right_child = right_page_num
            /\ left_page_num \notin {root_page_num, right_page_num}
            /\ before.pager.pages[left_page_num] = << <<>>, <<>> >>
            /\ left_page_num \in LeafPages(after)
            /\ right_page_num \in LeafPages(after)
            /\ ~LeafAt(after, left_page_num).is_root
            /\ LeafAt(after, left_page_num).num_cells = LEAF_NODE_LEFT_SPLIT_COUNT
            /\ LeafAt(after, left_page_num).next_leaf = right_page_num
            /\ root.cells[1][1] = get_max_key(LeafAt(after, left_page_num))
            /\ LeafAt(after, left_page_num).parent_ptr = root_page_num
            /\ LeafAt(after, right_page_num).parent_ptr = root_page_num

\* a full root leaf was split by a row put after its cell
C23_Witness ==
    /\ unit.fn = "split"
    /\ unit.pc = "done"
    /\ LeafAt(unit.table, unit.cursor.page_num).is_root
    /\ unit.cursor.cell_num = LEAF_NODE_MAX_CELLS
    /\ unit.after[1].root_page_num \in InternalPages(unit.after[1])

(***************************************************************************)
(* The two operations on an internal node, each applied once.  The parent  *)
(* has n keys over n + 1 leaves of one cell each, the i-th leaf holding    *)
(* key 10 * i; it is on page 0 (as the root) or on page 60, its leaves are *)
(* on the pages after 30 or after 80.  internal_node_insert gets a further *)
(* leaf, on page 10, 50 or 70, whose key lies before, between or after the *)
(* keys of the other leaves; update_internal_node_key gets the key of a    *)
(* cell or the max key of the right child.                                 *)
(***************************************************************************)
\* the parent has 1 .. MaxInternalKeys keys, or is full
MaxInternalKeys == 3
InternalSizes == (1..MaxInternalKeys) \cup {INTERNAL_NODE_MAX_CELLS}
ParentPages == {0, 60}
ChildPages == {10, 50, 70}
LeafBases == {30, 80}
KeySpacing == 10

ParentOver(n, base, root) ==
    [InternalNode_new EXCEPT
        !.is_root = root,
        !.num_keys = n,
        !.right_child = base + n + 1,
        !.cells = [i \in 1..INTERNAL_NODE_MAX_CELLS |->
                       IF i <= n THEN <<KeySpacing * i, base + i>> ELSE <<0, 0>>]]

InternalTable(n, parent_page, base, child_page, child_key) ==
    [root_page_num |-> 0,
     pager |-> [file_length |-> 0, num_pages |-> TABLE_MAX_PAGES - 1,
                pages |-> [p \in 0..(TABLE_MAX_PAGES - 1) |->
                    IF p = parent_page
                    THEN << <<ParentOver(n, base, parent_page = 0)>>, <<>> >>
                    ELSE IF p = child_page
                    THEN << <<>>, <<[LeafOf(<<child_key>>, 0)
                                        EXCEPT !.parent_ptr = parent_page]>> >>
                    ELSE IF p > base /\ p <= base + n + 1
                    THEN << <<>>, <<[LeafOf(<<KeySpacing * (p - base)>>, 0)
                                        EXCEPT !.parent_ptr = parent_page]>> >>
                    ELSE << <<>>, <<>> >>]]]

InitInternal ==
    /\ table = Db_new(FALSE, <<>>).table
    /\ file = <<>>
    /\ phase = "open"
    /\ out = <<>>
    /\ last = [op |-> "open", ok |-> TRUE, row |-> NoRow, err |-> "", oob |-> FALSE]
    /\ stmts = <<>>
    /\ fresh = TRUE
    /\ closed = <<>>
    /\ reopened = FALSE
    /\ \/ \E n \in InternalSizes : \E pp \in ParentPages : \E b \in LeafBases :
          \E cp \in ChildPages : \E j \in 0..(n + 1) :
              unit = [fn |-> "internal_insert", pc |-> "start",
                      table |-> InternalTable(n, pp, b, cp, KeySpacing * j + KeySpacing \div 2),
                      parent_page_num |-> pp, child_page_num |-> cp, after |-> <<>>]
       \/ \E n \in InternalSizes : \E i \in 1..(n + 1) : \E d \in {-1, 1} :
              unit = [fn |-> "update_key", pc |-> "start",
                      node |-> ParentOver(n, 30, TRUE),
                      old_max |-> KeySpacing * i, new_key |-> KeySpacing * i + d,
                      after |-> <<>>]

InternalInsert ==
    /\ unit.fn = "internal_insert"
    /\ unit.pc = "start"
    /\ \E r \in {internal_node_insert(unit.table, <<>>, unit.parent_page_num,
                                      unit.child_page_num)} :
           unit' = [unit EXCEPT !.pc = IF r.panic THEN "crashed" ELSE "done",
                                !.after = <<r.table>>]
    /\ UNCHANGED <<table, file, phase, out, last, stmts, fresh, closed, reopened>>

UpdateKey ==
    /\ unit.fn = "update_key"
    /\ unit.pc = "start"
    /\ \E r \in {update_internal_node_key(unit.node, unit.old_max, unit.new_key)} :
           unit' = [unit EXCEPT !.pc = IF r.panic THEN "crashed" ELSE "done",
                                !.after = <<r.node>>]
    /\ UNCHANGED <<table, file, phase, out, last, stmts, fresh, closed, reopened>>

NextInternal ==
    \/ InternalInsert
    \/ UpdateKey

SpecInternal == InitInternal /\ [][NextInternal]_vars

\* the children of an internal node in order, each with the key the node
\* has for it (for the right child: the max key of the leaf)
ChildEntries(t, node) ==
    [i \in 1..(node.num_keys + 1) |->
        IF i <= node.num_keys THEN node.cells[i]
        ELSE <<get_max_key(LeafAt(t, node.right_child)), node.right_child>>]

\* entries with the entry e put before the first entry of a key >= e's
PutInOrder(entries, e) ==
    LET at == {i \in 1..Len(entries) : entries[i][1] >= e[1]}
        pos == IF at = {} THEN Len(entries) + 1
               ELSE CHOOSE i \in at : \A j \in at : i <= j
    IN  SubSeq(entries, 1, pos - 1) \o <<e>> \o SubSeq(entries, pos, Len(entries))

(***************************************************************************)
(* C24: internal_node_insert into a parent that is not full leaves num_keys *)
(* one higher and the parent's children in order (the cells, then          *)
(* right_child) equal to the children before with the new child at its     *)
(* place in max-key order, the other cells as they were; for every place,  *)
(* the first one included.                                                 *)
(***************************************************************************)
C24_InternalInsertKeepsOrder ==
    (unit.fn = "internal_insert" /\ unit.pc # "start"
            /\ InternalAt(unit.table, unit.parent_page_num).num_keys
                   < INTERNAL_NODE_MAX_CELLS) =>
        /\ unit.pc = "done"
        /\ LET before == unit.table
               after == unit.after[1]
               pre == InternalAt(before, unit.parent_page_num)
               post == InternalAt(after, unit.parent_page_num)
               child == LeafAt(before, unit.child_page_num)
           IN  /\ post.num_keys = pre.num_keys + 1
               /\ ChildEntries(after, post)
                    = PutInOrder(ChildEntries(before, pre),
                                 <<get_max_key(child), unit.child_page_num>>)

(***************************************************************************)
(* C25: internal_node_insert into a parent with INTERNAL_NODE_MAX_CELLS    *)
(* keys fails and leaves the parent as it was: num_keys, every cell and    *)
(* right_child.                                                            *)
(***************************************************************************)
C25_FullParentUnchanged ==
    (unit.fn = "internal_insert" /\ unit.pc # "start"
            /\ InternalAt(unit.table, unit.parent_page_num).num_keys
                   = INTERNAL_NODE_MAX_CELLS) =>
        /\ unit.pc = "crashed"
        /\ InternalAt(unit.after[1], unit.parent_page_num)
               = InternalAt(unit.table, unit.parent_page_num)

(***************************************************************************)
(* C26: update_internal_node_key(old_max, new_key) gives the cell whose    *)
(* key is old_max the key new_key and changes nothing else: not that       *)
(* cell's child, no other cell, not num_keys, not right_child, and no cell *)
(* at an index from num_keys on, also when old_max is above every key of   *)
(* the node.                                                               *)
(***************************************************************************)
C26_UpdateKeyTouchesOneKey ==
    (unit.fn = "update_key" /\ unit.pc # "start") =>
        /\ unit.pc = "done"
        /\ LET pre == unit.node
               post == unit.after[1]
           IN  /\ post.num_keys = pre.num_keys
               /\ post.right_child = pre.right_child
               /\ post.is_root = pre.is_root
               /\ post.parent_ptr = pre.parent_ptr
               /\ \A i \in 1..INTERNAL_NODE_MAX_CELLS :
                      post.cells[i] =
                          IF i <= pre.num_keys /\ pre.cells[i][1] = unit.old_max
                          THEN <<unit.new_key, pre.cells[i][2]>>
                          ELSE pre.cells[i]

(***************************************************************************)
(* C27: advance_cursor from a cell of a leaf moves to the next cell of the *)
(* leaf; from the last cell it moves to cell 0 of the leaf next_leaf names *)
(* when next_leaf is not 0, and sets end_of_table only when next_leaf is   *)
(* 0.  Checked from every cell of every leaf of a live Db.                 *)
(***************************************************************************)
C27_AdvanceFollowsNextLeaf ==
    phase = "open" =>
        \A p \in LeafPages(table) :
            \A c \in 0..(LeafAt(table, p).num_cells - 1) :
                \E r \in {advance_cursor(table, [page_num |-> p, cell_num |-> c,
                                                 end_of_table |-> FALSE])} :
                    /\ ~r.panic
                    /\ r.cursor =
                           IF c + 1 < LeafAt(table, p).num_cells
                           THEN [page_num |-> p, cell_num |-> c + 1,
                                 end_of_table |-> FALSE]
                           ELSE IF LeafAt(table, p).next_leaf # 0
                           THEN [page_num |-> LeafAt(table, p).next_leaf, cell_num |-> 0,
                                 end_of_table |-> FALSE]
                           ELSE [page_num |-> p, cell_num |-> c + 1,
                                 end_of_table |-> TRUE]

(***************************************************************************)
(* C28: on every tree of a live Db table_start returns a cursor at cell 0  *)
(* of the leftmost leaf, the leaf reached from the root through the first  *)
(* child of each internal node, with end_of_table set exactly when that    *)
(* leaf has no cell.                                                       *)
(***************************************************************************)
C28_StartAtLeftmostLeaf ==
    phase = "open" =>
        \E r \in {table_start(table)} :
            /\ ~r.panic
            /\ r.cursor.page_num \in LeafPages(table)
            /\ r.cursor.page_num = LeftmostLeaf(table, table.root_page_num, TABLE_MAX_PAGES)
            /\ r.cursor.cell_num = 0
            /\ r.cursor.end_of_table <=> (LeafAt(table, r.cursor.page_num).num_cells = 0)

\* the number of cells of all leaves
StoredRows(t) ==
    Len(Flatten([p \in 1..TABLE_MAX_PAGES |->
                    IF (p - 1) \in LeafPages(t) THEN LeafKeys(LeafAt(t, p - 1)) ELSE <<>>]))

(***************************************************************************)
(* C29: a select on a live Db returns after reading as many rows as are    *)
(* stored, and the chain of next_leaf from the leftmost leaf meets no page *)
(* twice and ends.                                                         *)
(***************************************************************************)
C29_ScanReadsEveryRow ==
    last.op = "select" =>
        /\ last.ok
        /\ Len(out) = StoredRows(table)
        /\ ChainEnds(table)
        /\ LET chain == LeafChain(table,
                                  LeftmostLeaf(table, table.root_page_num, TABLE_MAX_PAGES),
                                  TABLE_MAX_PAGES)
           IN  \A i, j \in 1..Len(chain) : chain[i] = chain[j] => i = j

(***************************************************************************)
(* The pager over a file of whole pages: the file holds 0 .. MaxOpenPages  *)
(* leaf images, the first one the root's; it is opened, and then leaves    *)
(* are materialized by ensure_page_leaf, each a page the pager counts or   *)
(* the page get_unused_page_num names.                                     *)
(***************************************************************************)
FirstKeys == {1, 2, 3}

\* the images of k leaves, leaf i holding the key first + i
RECURSIVE LeafFile(_, _)
LeafFile(k, first) ==
    IF k = 0 THEN <<>>
    ELSE LeafFile(k - 1, first)
             \o LeafNode_deserialize_node(
                    [LeafOf(<<first + k - 1>>, 0) EXCEPT !.is_root = (k = 1)],
                    Filled(PAGE_SIZE, 0))

InitPager ==
    /\ table = Db_new(FALSE, <<>>).table
    /\ file = <<>>
    /\ phase = "open"
    /\ out = <<>>
    /\ last = [op |-> "open", ok |-> TRUE, row |-> NoRow, err |-> "", oob |-> FALSE]
    /\ stmts = <<>>
    /\ fresh = TRUE
    /\ closed = <<>>
    /\ reopened = FALSE
    /\ \E k \in 0..MaxOpenPages : \E first \in FirstKeys :
           unit = [fn |-> "pager", pc |-> "start", file |-> LeafFile(k, first),
                   pager |-> <<>>]

PagerOpen ==
    /\ unit.fn = "pager"
    /\ unit.pc = "start"
    /\ \E r \in {open_file(TRUE, unit.file)} :
           unit' = [unit EXCEPT !.pc = IF r.res = "ok" THEN "open" ELSE "crashed",
                                !.pager = IF r.res = "ok" THEN <<r.pager>> ELSE <<>>]
    /\ UNCHANGED <<table, file, phase, out, last, stmts, fresh, closed, reopened>>

\* ensure_page_leaf(page_num).unwrap(), as split_and_insert calls it
PagerEnsure(page_num) ==
    /\ unit.fn = "pager"
    /\ unit.pc = "open"
    /\ page_num <= get_unused_page_num(unit.pager[1])
    /\ \E r \in {ensure_page_leaf(unit.pager[1], unit.file, page_num)} :
           unit' = [unit EXCEPT !.pc = IF r.res = "ok" THEN "open" ELSE "crashed",
                                !.pager = <<r.pager>>]
    /\ UNCHANGED <<table, file, phase, out, last, stmts, fresh, closed, reopened>>

NextPager ==
    \/ PagerOpen
    \/ \E page_num \in 0..MaxOpenPages : PagerEnsure(page_num)

SpecPager == InitPager /\ [][NextPager]_vars

\* the pages that hold a node in memory or on the file
PagesInUse(pager, f) ==
    Materialized(pager) \cup {p \in PageNums : (p + 1) * PAGE_SIZE <= Len(f)}

(***************************************************************************)
(* C30: num_pages is one more than the highest page number in use, also    *)
(* once pages of a reopened file have been materialized, so that the page  *)
(* get_unused_page_num names has an empty slot and lies past the end of    *)
(* the file.                                                               *)
(***************************************************************************)
C30_NumPagesIsNextFree ==
    (unit.fn = "pager" /\ unit.pc = "open") =>
        LET pager == unit.pager[1]
            in_use == PagesInUse(pager, unit.file)
            next == get_unused_page_num(pager)
        IN  /\ in_use # {}
            /\ pager.num_pages = 1 + MaxOf(in_use)
            /\ pager.pages[next] = << <<>>, <<>> >>
            /\ next * PAGE_SIZE >= Len(unit.file)

(***************************************************************************)
(* The pager's accessors, each applied once: to the pager of a new store,  *)
(* of a store after one insert (a root leaf), after two (an internal root  *)
(* over two leaves), or to a pager whose internal node lies on a higher    *)
(* page than a leaf; with page numbers of slots that hold a node, of empty *)
(* slots, and around TABLE_MAX_PAGES.                                      *)
(***************************************************************************)
\* page numbers go up to TABLE_MAX_PAGES + MaxPageOver
MaxPageOver == 1
AccessPages ==
    {0, 1, 2, 10, 31, 60} \cup ((TABLE_MAX_PAGES - 1)..(TABLE_MAX_PAGES + MaxPageOver))

AccessRow == [id |-> 1, username |-> Str(1, 97), email |-> Str(1, 98)]

AccessTables ==
    LET t0 == Db_new(FALSE, <<>>).table
        t1 == execute_insert_statement(t0, <<>>, AccessRow).table
        t2 == execute_insert_statement(t1, <<>>, [AccessRow EXCEPT !.id = 2]).table
    IN  {t0, t1, t2, InternalTable(1, 60, 30, 10, KeySpacing \div 2)}

InitAccess ==
    /\ table = Db_new(FALSE, <<>>).table
    /\ file = <<>>
    /\ phase = "open"
    /\ out = <<>>
    /\ last = [op |-> "open", ok |-> TRUE, row |-> NoRow, err |-> "", oob |-> FALSE]
    /\ stmts = <<>>
    /\ fresh = TRUE
    /\ closed = <<>>
    /\ reopened = FALSE
    /\ \E t \in AccessTables : \E a \in AccessPages : \E b \in AccessPages :
       \E op \in {"get_page_leaf", "get_page_internal", "ensure_page_leaf",
                  "get_two_pages_leaf", "get_internal_and_leaf"} :
           /\ op \in {"get_page_leaf", "get_page_internal", "ensure_page_leaf"} => b = a
           /\ unit = [fn |-> "access", pc |-> "start", op |-> op, pager |-> t.pager,
                      a |-> a, b |-> b, res |-> "", msg |-> "", got |-> <<>>]

AccessLeaf ==
    /\ unit.fn = "access" /\ unit.pc = "start" /\ unit.op = "get_page_leaf"
    /\ \E r \in {get_page_leaf(unit.pager, unit.a)} :
           unit' = [unit EXCEPT !.pc = "done", !.res = r.res, !.msg = r.msg,
                                !.got = IF r.res = "ok" THEN <<r.node>> ELSE <<>>]
    /\ UNCHANGED <<table, file, phase, out, last, stmts, fresh, closed, reopened>>

AccessInternal ==
    /\ unit.fn = "access" /\ unit.pc = "start" /\ unit.op = "get_page_internal"
    /\ \E r \in {get_page_internal(unit.pager, unit.a)} :
           unit' = [unit EXCEPT !.pc = "done", !.res = r.res, !.msg = r.msg,
                                !.got = IF r.res = "ok" THEN <<r.node>> ELSE <<>>]
    /\ UNCHANGED <<table, file, phase, out, last, stmts, fresh, closed, reopened>>

AccessEnsure ==
    /\ unit.fn = "access" /\ unit.pc = "start" /\ unit.op = "ensure_page_leaf"
    /\ \E r \in {ensure_page_leaf(unit.pager, <<>>, unit.a)} :
           unit' = [unit EXCEPT !.pc = "done", !.res = r.res, !.pager = r.pager]
    /\ UNCHANGED <<table, file, phase, out, last, stmts, fresh, closed, reopened>>

AccessTwoLeaves ==
    /\ unit.fn = "access" /\ unit.pc = "start" /\ unit.op = "get_two_pages_leaf"
    /\ \E r \in {get_two_pages_leaf(unit.pager, unit.a, unit.b)} :
           unit' = [unit EXCEPT !.pc = "done", !.res = r.res, !.msg = r.msg,
                                !.got = IF r.res = "ok" THEN <<r.first, r.second>>
                                        ELSE <<>>]
    /\ UNCHANGED <<table, file, phase, out, last, stmts, fresh, closed, reopened>>

AccessInternalAndLeaf ==
    /\ unit.fn = "access" /\ unit.pc = "start" /\ unit.op = "get_internal_and_leaf"
    /\ \E r \in {get_internal_and_leaf(unit.pager, unit.a, unit.b)} :
           unit' = [unit EXCEPT !.pc = "done", !.res = r.res, !.msg = r.msg,
                                !.got = IF r.res = "ok" THEN <<r.internal, r.leaf>>
                                        ELSE <<>>]
    /\ UNCHANGED <<table, file, phase, out, last, stmts, fresh, closed, reopened>>

NextAccess ==
    \/ AccessLeaf
    \/ AccessInternal
    \/ AccessEnsure
    \/ AccessTwoLeaves
    \/ AccessInternalAndLeaf

SpecAccess == InitAccess /\ [][NextAccess]_vars

(***************************************************************************)
(* C31: an access to a page number of TABLE_MAX_PAGES or more, the number  *)
(* TABLE_MAX_PAGES itself included, returns the page-limit error: it does  *)
(* not index the slot array there.                                         *)
(***************************************************************************)
C31_PageLimitIsAnError ==
    (unit.fn = "access" /\ unit.pc = "done"
            /\ unit.op \in {"get_page_leaf", "get_page_internal", "ensure_page_leaf"}
            /\ unit.a >= TABLE_MAX_PAGES) =>
        unit.res = "err"

(***************************************************************************)
(* C32: get_two_pages_leaf and get_internal_and_leaf fail on two equal     *)
(* page numbers; on distinct page numbers of which the first names a leaf  *)
(* (an internal node, for get_internal_and_leaf) and the second a leaf,    *)
(* they return those two nodes in the order of the arguments, whichever    *)
(* page number is the larger.                                              *)
(***************************************************************************)
C32_TwoNodesInArgumentOrder ==
    (unit.fn = "access" /\ unit.pc = "done"
            /\ unit.op \in {"get_two_pages_leaf", "get_internal_and_leaf"}) =>
        /\ unit.a = unit.b => unit.res = "err"
        /\ (/\ unit.a # unit.b
            /\ unit.a < TABLE_MAX_PAGES
            /\ unit.b < TABLE_MAX_PAGES
            /\ Len(unit.pager.pages[unit.b][2]) > 0
            /\ Len(unit.pager.pages[unit.a][IF unit.op = "get_two_pages_leaf"
                                            THEN 2 ELSE 1]) > 0)
               => /\ unit.res = "ok"
                  /\ unit.got = <<unit.pager.pages[unit.a][IF unit.op = "get_two_pages_leaf"
                                                           THEN 2 ELSE 1][1],
                                  unit.pager.pages[unit.b][2][1]>>


-----------------------------------------------------------------------------
\* Page images: a node is written into a page buffer and read back from it.

PageWords == {0, 1, 258, 65536}
PageFills == {0, 255}
PageCellKeys == {1, 300}

PageLeaves ==
    {[LeafOf(<<k>>, 0) EXCEPT !.is_root = r, !.parent_ptr = p,
                              !.num_cells = n, !.next_leaf = x] :
        k \in PageCellKeys, r \in BOOLEAN, p \in PageWords, n \in 0..1,
        x \in PageWords}

PageInternals ==
    {[ParentOver(n, b, r) EXCEPT !.parent_ptr = p] :
        n \in 0..MaxInternalKeys, b \in LeafBases, r \in BOOLEAN, p \in PageWords}

InitPage ==
    /\ table = Db_new(FALSE, <<>>).table
    /\ file = <<>>
    /\ phase = "open"
    /\ out = <<>>
    /\ last = [op |-> "open", ok |-> TRUE, row |-> NoRow, err |-> "", oob |-> FALSE]
    /\ stmts = <<>>
    /\ fresh = TRUE
    /\ closed = <<>>
    /\ reopened = FALSE
    /\ \E fill \in PageFills :
           \/ \E n \in PageLeaves :
                  unit = [fn |-> "page", pc |-> "start", kind |-> "leaf", node |-> n,
                          image |-> Filled(PAGE_SIZE, fill), panic |-> FALSE,
                          back |-> LeafNode_new]
           \/ \E n \in PageInternals :
                  unit = [fn |-> "page", pc |-> "start", kind |-> "internal", node |-> n,
                          image |-> Filled(PAGE_SIZE, fill), panic |-> FALSE,
                          back |-> InternalNode_new]

PageEncodeLeaf ==
    /\ unit.fn = "page"
    /\ unit.pc = "start"
    /\ unit.kind = "leaf"
    /\ unit' = [unit EXCEPT !.pc = "encoded",
                            !.image = LeafNode_deserialize_node(unit.node, unit.image)]
    /\ UNCHANGED <<table, file, phase, out, last, stmts, fresh, closed, reopened>>

PageEncodeInternal ==
    /\ unit.fn = "page"
    /\ unit.pc = "start"
    /\ unit.kind = "internal"
    /\ unit' = [unit EXCEPT !.pc = "encoded",
                            !.image = InternalNode_deserialize_node(unit.node, unit.image)]
    /\ UNCHANGED <<table, file, phase, out, last, stmts, fresh, closed, reopened>>

PageDecodeLeaf ==
    /\ unit.fn = "page"
    /\ unit.pc = "encoded"
    /\ unit.kind = "leaf"
    /\ \E r \in {LeafNode_serialize_node(unit.image)} :
           unit' = [unit EXCEPT !.pc = "decoded", !.panic = r.panic, !.back = r.node]
    /\ UNCHANGED <<table, file, phase, out, last, stmts, fresh, closed, reopened>>

PageDecodeInternal ==
    /\ unit.fn = "page"
    /\ unit.pc = "encoded"
    /\ unit.kind = "internal"
    /\ \E r \in {InternalNode_serialize_node(unit.image, unit.back)} :
           unit' = [unit EXCEPT !.pc = "decoded", !.panic = r.panic, !.back = r.node]
    /\ UNCHANGED <<table, file, phase, out, last, stmts, fresh, closed, reopened>>

NextPage ==
    \/ PageEncodeLeaf
    \/ PageEncodeInternal
    \/ PageDecodeLeaf
    \/ PageDecodeInternal

SpecPage == InitPage /\ [][NextPage]_vars

\* C33: an internal node read back from the page image it was written to is
\* the node that was written: the read returns, and is_root, parent_ptr,
\* num_keys, right_child and every cell are the written ones.
C33_InternalPageRoundTrip ==
    (unit.fn = "page" /\ unit.kind = "internal" /\ unit.pc = "decoded")
        => /\ ~unit.panic
           /\ unit.back = unit.node

\* C34: a leaf node read back from the page image it was written to is the
\* node that was written, in is_root, parent_ptr, num_cells, next_leaf and the
\* whole cells array; the image is PAGE_SIZE bytes and its node type byte is 1.
C34_LeafPageRoundTrip ==
    (unit.fn = "page" /\ unit.kind = "leaf" /\ unit.pc \in {"encoded", "decoded"})
        => /\ Len(unit.image) = PAGE_SIZE
           /\ unit.image[NODE_TYPE_OFFSET + 1] = 1
           /\ unit.pc = "decoded"
                  => /\ ~unit.panic
                     /\ unit.back.is_root = unit.node.is_root
                     /\ unit.back.parent_ptr = unit.node.parent_ptr
                     /\ unit.back.num_cells = unit.node.num_cells
                     /\ unit.back.next_leaf = unit.node.next_leaf
                     /\ unit.back.cells = unit.node.cells

C34_Witness ==
    /\ unit.fn = "page"
    /\ unit.kind = "leaf"
    /\ unit.pc = "decoded"
    /\ unit.node.is_root
    /\ unit.node.parent_ptr > 255
    /\ unit.node.next_leaf > 255
    /\ unit.node.num_cells = 1
    /\ get_cell_key(unit.node, 0) > 255
    /\ unit.image # Filled(PAGE_SIZE, 255)
    /\ unit.back = unit.node


-----------------------------------------------------------------------------
\* C35: every pager slot is empty or holds exactly one node, never an internal
\* node and a leaf together, and get_page_node_type names the variant the slot
\* holds; after the root leaf is replaced at a split the root slot holds the
\* internal node only.
C35_OneNodePerSlot ==
    \A p \in 0..(TABLE_MAX_PAGES - 1) :
        LET slot == table.pager.pages[p]
        IN  /\ Len(slot[1]) <= 1
            /\ Len(slot[2]) <= 1
            /\ ~(Len(slot[1]) > 0 /\ Len(slot[2]) > 0)
            /\ Len(slot[1]) > 0 => get_page_node_type(table.pager, p) = "Internal"
            /\ Len(slot[2]) > 0 => get_page_node_type(table.pager, p) = "Leaf"

C35_Witness ==
    /\ phase = "open"
    /\ last.op = "insert"
    /\ last.ok
    /\ table.pager.pages[table.root_page_num] # NoPages[table.root_page_num]
    /\ Len(table.pager.pages[table.root_page_num][1]) = 1
    /\ Len(table.pager.pages[table.root_page_num][2]) = 0
    /\ get_page_node_type(table.pager, table.root_page_num) = "Internal"
    /\ \E p \in 1..(TABLE_MAX_PAGES - 1) :
           get_page_node_type(table.pager, p) = "Leaf"


(***************************************************************************)
(* C36: in every reachable state, in every internal node the separator     *)
(* keys of cells 0 .. num_keys - 1 do not decrease, every key stored under *)
(* the child of cell i is at most the key of cell i, and every key stored  *)
(* under right_child is greater than the last separator.                   *)
(***************************************************************************)
C36_SeparatorsOrderSubtrees ==
    \A p \in InternalPages(table) :
        LET node == InternalAt(table, p)
        IN  /\ \A i \in 1..(node.num_keys - 1) : node.cells[i][1] <= node.cells[i + 1][1]
            /\ \A i \in 1..node.num_keys :
                   \A k \in SubtreeKeys(table, node.cells[i][2], TABLE_MAX_PAGES) :
                       k <= node.cells[i][1]
            /\ node.num_keys > 0 =>
                   \A k \in SubtreeKeys(table, node.right_child, TABLE_MAX_PAGES) :
                       k > node.cells[node.num_keys][1]


\* the children of an internal node in order: the cells' children, then
\* right_child
ChildSeq(node) == [i \in 1..(node.num_keys + 1) |->
                       IF i <= node.num_keys THEN node.cells[i][2] ELSE node.right_child]

\* the pages that follow page p among the children of some internal node
RightSiblings(t, p) ==
    {ChildSeq(InternalAt(t, q))[i + 1] :
        <<q, i>> \in {<<q, i>> \in InternalPages(t) \X (1..INTERNAL_NODE_MAX_CELLS) :
                         /\ i <= InternalAt(t, q).num_keys
                         /\ ChildSeq(InternalAt(t, q))[i] = p}}

(***************************************************************************)
(* C37: page 0 is never the target of a link.  In every reachable state no *)
(* internal node has 0 as the child of a cell below num_keys or as         *)
(* right_child, a next_leaf other than 0 names a page that holds a leaf,   *)
(* and a leaf whose next_leaf is 0 has no right sibling.                   *)
(***************************************************************************)
C37_PageZeroNeverLinked ==
    /\ \A p \in InternalPages(table) : 0 \notin ChildrenOf(InternalAt(table, p))
    /\ \A p \in LeafPages(table) :
           IF LeafAt(table, p).next_leaf = 0
           THEN RightSiblings(table, p) = {}
           ELSE LeafAt(table, p).next_leaf \in LeafPages(table)

\* The root leaf has been split: the root refers to two leaves, the left one
\* is linked to the right one and the right one ends the chain.
C37_Witness ==
    /\ phase = "open"
    /\ table.root_page_num \in InternalPages(table)
    /\ \E l \in LeafPages(table) : \E r \in LeafPages(table) :
           /\ ChildSeq(InternalAt(table, table.root_page_num)) = <<l, r>>
           /\ LeafAt(table, l).next_leaf = r
           /\ LeafAt(table, r).next_leaf = 0


\* the depths below page p at which a leaf is reached through child pointers;
\* depth bounds the descent
RECURSIVE LeafDepths(_, _, _)
LeafDepths(t, p, depth) ==
    IF p \in LeafPages(t)
    THEN {0}
    ELSE IF p \in InternalPages(t) /\ depth > 0
    THEN {d + 1 : d \in UNION {LeafDepths(t, c, depth - 1) :
                                  c \in ChildrenOf(InternalAt(t, p)) \cap PageNums}}
    ELSE {}

(***************************************************************************)
(* C38: in every reachable state all the leaves below the root are at the  *)
(* same depth, and every leaf that holds a stored key is reached from the  *)
(* root through child pointers.                                            *)
(***************************************************************************)
C38_LeavesLevelAndReachable ==
    /\ Cardinality(LeafDepths(table, table.root_page_num, TABLE_MAX_PAGES)) <= 1
    /\ \A p \in LeafPages(table) :
           LeafAt(table, p).num_cells > 0
               => p \in ReachableFrom(table, table.root_page_num, TABLE_MAX_PAGES)

\* The root leaf has been split: two leaves hold a key each, one level below
\* the internal root.
C38_Witness ==
    /\ phase = "open"
    /\ table.root_page_num \in InternalPages(table)
    /\ LeafDepths(table, table.root_page_num, TABLE_MAX_PAGES) = {1}
    /\ Cardinality({p \in LeafPages(table) : LeafAt(table, p).num_cells > 0}) = 2


(***************************************************************************)
(* C39: after close_db has returned Ok the file's length is a multiple of  *)
(* PAGE_SIZE, so that Pager::open_file on the file does not fail with the  *)
(* corrupt-file error: a Db opened on it just after the close is opened.   *)
(***************************************************************************)
C39_CloseLeavesWholePages ==
    /\ (last.op = "close" /\ last.ok)
           => /\ Len(file) % PAGE_SIZE = 0
              /\ open_file(TRUE, file).res = "ok"
    /\ (last.op = "open" /\ reopened) => (last.ok /\ phase = "open")

\* A Db that held a row was closed and the file, one page long, was opened
\* again.
C39_Witness ==
    /\ last.op = "open"
    /\ reopened
    /\ last.ok
    /\ Len(file) = PAGE_SIZE
    /\ closed # <<>>
    /\ closed[1].stmts # <<>>

=============================================================================
